---- MODULE Spec2Model ----
(***************************************************************************)
(* Model of the trade-logger FIFO P&L engine and its structure-cost table. *)
(*                                                                         *)
(* Sources: src/src/utils/structureConfig.js (cost table, constants) and   *)
(* src/src/utils/insightsGenerator.js lines 576-777 (calculateFIFOPnL).    *)
(*                                                                         *)
(* Numbers are kept exact by fixing units:                                 *)
(*   - leg counts are counted in half legs (Leg half legs per leg), so the *)
(*     built-in 0.5 of the outrights is Leg \div 2;                        *)
(*   - prices and price P&L are in thousandths of a price unit, so the     *)
(*     default TICK_SIZE 0.005 is 5;                                       *)
(*   - dollar amounts are in half cents, so the default TICK_VALUE $16.5   *)
(*     is 3300, and RT_COST_PER_LOT $1.65 per leg is 165 half cents per    *)
(*     half leg.                                                           *)
(* JavaScript doubles are modelled by exact integers: round-off is not     *)
(* modelled.                                                               *)
(*                                                                         *)
(* A JavaScript string is a sequence of one-character strings, so that     *)
(* toLowerCase, trim and includes are computed and not assumed.            *)
(* A JavaScript object used as a table is the sequence of its own          *)
(* key/value entries in insertion order.  Names are taken among the names  *)
(* that are not properties of Object.prototype.                            *)
(***************************************************************************)
EXTENDS Integers, Sequences, FiniteSets, TLC

VARIABLES
    customStructures,  \* structureConfig.js:118   let customStructures = {}
    localStorage,      \* the item 'tradeLogger_customStructures' of the browser's store
    TICK_VALUE,        \* structureConfig.js:12
    TICK_SIZE,         \* structureConfig.js:13
    RT_COST_PER_LOT,   \* structureConfig.js:14
    lookup,            \* the last getStructureRTLegs call, <<[name, result]>>, <<>> before any
    trades,            \* calculateFIFOPnL's argument: the array of trade object references
    structureName,     \* calculateFIFOPnL's argument
    fifo,              \* heap and local variables of the calculateFIFOPnL call
    settingsItem,      \* the item 'tradeLogger_settings' of the browser's store
    settingsPanel,     \* state of the mounted SettingsPanel, <<>> when it is not mounted
    builtIn,           \* the object STRUCTURE_RT_LEGS refers to
    session,           \* number of times the page has been loaded
    input,             \* parseTrades' argument: the pasted text
    parse,             \* local variables of the parseTrades call
    tradeLog,          \* App.jsx:14   the state `trades`
    manualForm,        \* TradeInput.jsx:59-67   the state of the manual-entry form
    parseStatus,       \* TradeInput.jsx:55   the status (<<>> for null), and the number of
                       \* pending timers that clear it
    pnlStats,          \* the last calculatePnLStats call, <<[matches, result]>>
    normalizations,    \* a structure name and the results of normalizeStructureName on it
    structuresData,    \* App.jsx:34-49   the memoized books of the structures
    analytics,         \* Analytics.jsx:99-124   the memoized analytics, <<>> when not mounted
    selectedStructure  \* App.jsx:16   <<>> for null, or the name of the selected structure

vars == <<customStructures, localStorage, TICK_VALUE, TICK_SIZE, RT_COST_PER_LOT,
          lookup, trades, structureName, fifo, settingsItem, settingsPanel,
          builtIn, session, input, parse, tradeLog, manualForm, parseStatus, pnlStats,
          normalizations, structuresData, analytics, selectedStructure>>

-----------------------------------------------------------------------------
(* Units *)

Leg == 2

(* Bounds of the model *)

MaxTrades == 3
MaxCostTrades == 2
MaxQty == 3
MaxSessions == 2

-----------------------------------------------------------------------------
(* JavaScript strings *)

UpperCaseLetters == <<"A", "B", "C", "D", "E", "F", "G", "H", "I", "J", "K", "L", "M", "N", "O", "P", "Q", "R", "S", "T", "U", "V", "W", "X", "Y", "Z">>

LowerCaseLetters == <<"a", "b", "c", "d", "e", "f", "g", "h", "i", "j", "k", "l", "m", "n", "o", "p", "q", "r", "s", "t", "u", "v", "w", "x", "y", "z">>

LowerCaseOf ==
    [c \in {UpperCaseLetters[k] : k \in 1..Len(UpperCaseLetters)} |->
        LowerCaseLetters[CHOOSE k \in 1..Len(UpperCaseLetters) : UpperCaseLetters[k] = c]]

LowerChar(c) == IF c \in DOMAIN LowerCaseOf THEN LowerCaseOf[c] ELSE c

toLowerCase(s) == [i \in 1..Len(s) |-> LowerChar(s[i])]

IsWhiteSpace(c) == c \in {" ", "\t", "\n", "\r"}

RECURSIVE trimStart(_)
trimStart(s) ==
    IF s # <<>> /\ IsWhiteSpace(Head(s)) THEN trimStart(Tail(s)) ELSE s

RECURSIVE trimEnd(_)
trimEnd(s) ==
    IF s # <<>> /\ IsWhiteSpace(s[Len(s)]) THEN trimEnd(SubSeq(s, 1, Len(s) - 1)) ELSE s

trim(s) == trimEnd(trimStart(s))

includes(s, sub) ==
    \E i \in 0..(Len(s) - Len(sub)) : SubSeq(s, i + 1, i + Len(sub)) = sub

-----------------------------------------------------------------------------
(* JavaScript objects used as tables *)

HasOwn(obj, k) == \E i \in 1..Len(obj) : obj[i].key = k

Get(obj, k) == obj[CHOOSE i \in 1..Len(obj) : obj[i].key = k].value

Keys(obj) == {obj[i].key : i \in 1..Len(obj)}

\* obj[k] = v: an existing key keeps its place, a new key is appended
Put(obj, k, v) ==
    IF HasOwn(obj, k)
    THEN [i \in 1..Len(obj) |-> IF obj[i].key = k THEN [key |-> k, value |-> v] ELSE obj[i]]
    ELSE Append(obj, [key |-> k, value |-> v])

\* delete obj[k]
Delete(obj, k) == SelectSeq(obj, LAMBDA e : e.key # k)

-----------------------------------------------------------------------------
(* structureConfig.js *)

STRUCTURE_RT_LEGS ==
    <<
      [key |-> <<"S", "O", "3", " ", "M", "a", "r", "2", "6", "-", "J", "u", "n", "2", "6", " ", "C", "a", "l", "e", "n", "d", "a", "r">>,
       value |-> 1 * Leg],   \* 'SO3 Mar26-Jun26 Calendar': 1
      [key |-> <<"S", "O", "3", " ", "J", "u", "n", "2", "6", "-", "S", "e", "p", "2", "6", " ", "C", "a", "l", "e", "n", "d", "a", "r">>,
       value |-> 1 * Leg],   \* 'SO3 Jun26-Sep26 Calendar': 1
      [key |-> <<"S", "O", "3", " ", "S", "e", "p", "2", "6", "-", "D", "e", "c", "2", "6", " ", "C", "a", "l", "e", "n", "d", "a", "r">>,
       value |-> 1 * Leg],   \* 'SO3 Sep26-Dec26 Calendar': 1
      [key |-> <<"S", "O", "3", " ", "D", "e", "c", "2", "6", "-", "M", "a", "r", "2", "7", " ", "C", "a", "l", "e", "n", "d", "a", "r">>,
       value |-> 1 * Leg],   \* 'SO3 Dec26-Mar27 Calendar': 1
      [key |-> <<"S", "O", "3", " ", "M", "a", "r", "2", "7", "-", "J", "u", "n", "2", "7", " ", "C", "a", "l", "e", "n", "d", "a", "r">>,
       value |-> 1 * Leg],   \* 'SO3 Mar27-Jun27 Calendar': 1
      [key |-> <<"S", "O", "3", " ", "J", "u", "n", "2", "7", "-", "S", "e", "p", "2", "7", " ", "C", "a", "l", "e", "n", "d", "a", "r">>,
       value |-> 1 * Leg],   \* 'SO3 Jun27-Sep27 Calendar': 1
      [key |-> <<"S", "O", "3", " ", "S", "e", "p", "2", "7", "-", "D", "e", "c", "2", "7", " ", "C", "a", "l", "e", "n", "d", "a", "r">>,
       value |-> 1 * Leg],   \* 'SO3 Sep27-Dec27 Calendar': 1
      [key |-> <<"S", "O", "3", " ", "D", "e", "c", "2", "7", "-", "M", "a", "r", "2", "8", " ", "C", "a", "l", "e", "n", "d", "a", "r">>,
       value |-> 1 * Leg],   \* 'SO3 Dec27-Mar28 Calendar': 1
      [key |-> <<"S", "O", "3", " ", "M", "a", "r", "2", "6", "-", "S", "e", "p", "2", "6", " ", "C", "a", "l", "e", "n", "d", "a", "r">>,
       value |-> 1 * Leg],   \* 'SO3 Mar26-Sep26 Calendar': 1
      [key |-> <<"S", "O", "3", " ", "J", "u", "n", "2", "6", "-", "D", "e", "c", "2", "6", " ", "C", "a", "l", "e", "n", "d", "a", "r">>,
       value |-> 1 * Leg],   \* 'SO3 Jun26-Dec26 Calendar': 1
      [key |-> <<"S", "O", "3", " ", "S", "e", "p", "2", "6", "-", "M", "a", "r", "2", "7", " ", "C", "a", "l", "e", "n", "d", "a", "r">>,
       value |-> 1 * Leg],   \* 'SO3 Sep26-Mar27 Calendar': 1
      [key |-> <<"S", "O", "3", " ", "D", "e", "c", "2", "6", "-", "J", "u", "n", "2", "7", " ", "C", "a", "l", "e", "n", "d", "a", "r">>,
       value |-> 1 * Leg],   \* 'SO3 Dec26-Jun27 Calendar': 1
      [key |-> <<"S", "O", "3", " ", "M", "a", "r", "2", "7", "-", "S", "e", "p", "2", "7", " ", "C", "a", "l", "e", "n", "d", "a", "r">>,
       value |-> 1 * Leg],   \* 'SO3 Mar27-Sep27 Calendar': 1
      [key |-> <<"S", "O", "3", " ", "J", "u", "n", "2", "7", "-", "D", "e", "c", "2", "7", " ", "C", "a", "l", "e", "n", "d", "a", "r">>,
       value |-> 1 * Leg],   \* 'SO3 Jun27-Dec27 Calendar': 1
      [key |-> <<"S", "O", "3", " ", "M", "a", "r", "2", "6", "-", "D", "e", "c", "2", "6", " ", "C", "a", "l", "e", "n", "d", "a", "r">>,
       value |-> 1 * Leg],   \* 'SO3 Mar26-Dec26 Calendar': 1
      [key |-> <<"S", "O", "3", " ", "J", "u", "n", "2", "6", "-", "M", "a", "r", "2", "7", " ", "C", "a", "l", "e", "n", "d", "a", "r">>,
       value |-> 1 * Leg],   \* 'SO3 Jun26-Mar27 Calendar': 1
      [key |-> <<"S", "O", "3", " ", "S", "e", "p", "2", "6", "-", "J", "u", "n", "2", "7", " ", "C", "a", "l", "e", "n", "d", "a", "r">>,
       value |-> 1 * Leg],   \* 'SO3 Sep26-Jun27 Calendar': 1
      [key |-> <<"S", "O", "3", " ", "D", "e", "c", "2", "6", "-", "S", "e", "p", "2", "7", " ", "C", "a", "l", "e", "n", "d", "a", "r">>,
       value |-> 1 * Leg],   \* 'SO3 Dec26-Sep27 Calendar': 1
      [key |-> <<"S", "O", "3", " ", "M", "a", "r", "2", "7", "-", "D", "e", "c", "2", "7", " ", "C", "a", "l", "e", "n", "d", "a", "r">>,
       value |-> 1 * Leg],   \* 'SO3 Mar27-Dec27 Calendar': 1
      [key |-> <<"S", "O", "3", " ", "J", "u", "n", "2", "7", "-", "M", "a", "r", "2", "8", " ", "C", "a", "l", "e", "n", "d", "a", "r">>,
       value |-> 1 * Leg],   \* 'SO3 Jun27-Mar28 Calendar': 1
      [key |-> <<"S", "O", "3", " ", "S", "e", "p", "2", "7", "-", "J", "u", "n", "2", "8", " ", "C", "a", "l", "e", "n", "d", "a", "r">>,
       value |-> 1 * Leg],   \* 'SO3 Sep27-Jun28 Calendar': 1
      [key |-> <<"S", "O", "3", " ", "M", "a", "r", "2", "6", " ", "3", "m", "o", " ", "B", "u", "t", "t", "e", "r", "f", "l", "y">>,
       value |-> 2 * Leg],   \* 'SO3 Mar26 3mo Butterfly': 2
      [key |-> <<"S", "O", "3", " ", "J", "u", "n", "2", "6", " ", "3", "m", "o", " ", "B", "u", "t", "t", "e", "r", "f", "l", "y">>,
       value |-> 2 * Leg],   \* 'SO3 Jun26 3mo Butterfly': 2
      [key |-> <<"S", "O", "3", " ", "S", "e", "p", "2", "6", " ", "3", "m", "o", " ", "B", "u", "t", "t", "e", "r", "f", "l", "y">>,
       value |-> 2 * Leg],   \* 'SO3 Sep26 3mo Butterfly': 2
      [key |-> <<"S", "O", "3", " ", "D", "e", "c", "2", "6", " ", "3", "m", "o", " ", "B", "u", "t", "t", "e", "r", "f", "l", "y">>,
       value |-> 2 * Leg],   \* 'SO3 Dec26 3mo Butterfly': 2
      [key |-> <<"S", "O", "3", " ", "M", "a", "r", "2", "7", " ", "3", "m", "o", " ", "B", "u", "t", "t", "e", "r", "f", "l", "y">>,
       value |-> 2 * Leg],   \* 'SO3 Mar27 3mo Butterfly': 2
      [key |-> <<"S", "O", "3", " ", "J", "u", "n", "2", "7", " ", "3", "m", "o", " ", "B", "u", "t", "t", "e", "r", "f", "l", "y">>,
       value |-> 2 * Leg],   \* 'SO3 Jun27 3mo Butterfly': 2
      [key |-> <<"S", "O", "3", " ", "S", "e", "p", "2", "7", " ", "3", "m", "o", " ", "B", "u", "t", "t", "e", "r", "f", "l", "y">>,
       value |-> 2 * Leg],   \* 'SO3 Sep27 3mo Butterfly': 2
      [key |-> <<"S", "O", "3", " ", "S", "e", "p", "2", "5", " ", "3", "m", "o", " ", "B", "u", "t", "t", "e", "r", "f", "l", "y">>,
       value |-> 2 * Leg],   \* 'SO3 Sep25 3mo Butterfly': 2
      [key |-> <<"S", "O", "N", " ", "M", "a", "r", "2", "6", " ", "D", "-", "F", "l", "y">>,
       value |-> 4 * Leg],   \* 'SON Mar26 D-Fly': 4
      [key |-> <<"S", "O", "N", " ", "J", "u", "n", "2", "6", " ", "D", "-", "F", "l", "y">>,
       value |-> 4 * Leg],   \* 'SON Jun26 D-Fly': 4
      [key |-> <<"S", "O", "N", " ", "S", "e", "p", "2", "6", " ", "D", "-", "F", "l", "y">>,
       value |-> 4 * Leg],   \* 'SON Sep26 D-Fly': 4
      [key |-> <<"S", "O", "N", " ", "D", "e", "c", "2", "6", " ", "D", "-", "F", "l", "y">>,
       value |-> 4 * Leg],   \* 'SON Dec26 D-Fly': 4
      [key |-> <<"S", "O", "N", " ", "M", "a", "r", "2", "7", " ", "D", "-", "F", "l", "y">>,
       value |-> 4 * Leg],   \* 'SON Mar27 D-Fly': 4
      [key |-> <<"S", "O", "N", " ", "J", "u", "n", "2", "7", " ", "D", "-", "F", "l", "y">>,
       value |-> 4 * Leg],   \* 'SON Jun27 D-Fly': 4
      [key |-> <<"S", "O", "N", " ", "M", "a", "r", "2", "6", " ", "3", " ", "F", "l", "y">>,
       value |-> 2 * Leg],   \* 'SON Mar26 3 Fly': 2
      [key |-> <<"S", "O", "N", " ", "J", "u", "n", "2", "6", " ", "3", " ", "F", "l", "y">>,
       value |-> 2 * Leg],   \* 'SON Jun26 3 Fly': 2
      [key |-> <<"S", "O", "N", " ", "S", "e", "p", "2", "6", " ", "3", " ", "F", "l", "y">>,
       value |-> 2 * Leg],   \* 'SON Sep26 3 Fly': 2
      [key |-> <<"S", "O", "N", " ", "D", "e", "c", "2", "6", " ", "3", " ", "F", "l", "y">>,
       value |-> 2 * Leg],   \* 'SON Dec26 3 Fly': 2
      [key |-> <<"S", "O", "N", " ", "M", "a", "r", "2", "7", " ", "3", " ", "F", "l", "y">>,
       value |-> 2 * Leg],   \* 'SON Mar27 3 Fly': 2
      [key |-> <<"S", "O", "N", " ", "J", "u", "n", "2", "7", " ", "3", " ", "F", "l", "y">>,
       value |-> 2 * Leg],   \* 'SON Jun27 3 Fly': 2
      [key |-> <<"S", "O", "N", " ", "S", "e", "p", "2", "7", " ", "3", " ", "F", "l", "y">>,
       value |-> 2 * Leg],   \* 'SON Sep27 3 Fly': 2
      [key |-> <<"S", "O", "N", " ", "M", "a", "r", "2", "6", " ", "3", " ", "D", "-", "F", "l", "y">>,
       value |-> 4 * Leg],   \* 'SON Mar26 3 D-Fly': 4
      [key |-> <<"S", "O", "N", " ", "J", "u", "n", "2", "6", " ", "3", " ", "D", "-", "F", "l", "y">>,
       value |-> 4 * Leg],   \* 'SON Jun26 3 D-Fly': 4
      [key |-> <<"S", "O", "N", " ", "S", "e", "p", "2", "6", " ", "3", " ", "D", "-", "F", "l", "y">>,
       value |-> 4 * Leg],   \* 'SON Sep26 3 D-Fly': 4
      [key |-> <<"S", "O", "N", " ", "D", "e", "c", "2", "6", " ", "3", " ", "D", "-", "F", "l", "y">>,
       value |-> 4 * Leg],   \* 'SON Dec26 3 D-Fly': 4
      [key |-> <<"S", "O", "N", " ", "S", "e", "p", "2", "6", " ", "F", "l", "y", " ", "C", "o", "n", "d", "o", "r">>,
       value |-> 6 * Leg],   \* 'SON Sep26 Fly Condor': 6
      [key |-> <<"S", "O", "N", " ", "D", "e", "c", "2", "6", " ", "F", "l", "y", " ", "C", "o", "n", "d", "o", "r">>,
       value |-> 6 * Leg],   \* 'SON Dec26 Fly Condor': 6
      [key |-> <<"S", "O", "N", " ", "M", "a", "r", "2", "7", " ", "F", "l", "y", " ", "C", "o", "n", "d", "o", "r">>,
       value |-> 6 * Leg],   \* 'SON Mar27 Fly Condor': 6
      [key |-> <<"S", "O", "N", " ", "J", "u", "n", "2", "7", " ", "F", "l", "y", " ", "C", "o", "n", "d", "o", "r">>,
       value |-> 6 * Leg],   \* 'SON Jun27 Fly Condor': 6
      [key |-> <<"S", "O", "3", " ", "S", "e", "p", "2", "6", " ", "3", "m", "o", " ", "C", "o", "n", "d", "o", "r">>,
       value |-> 2 * Leg],   \* 'SO3 Sep26 3mo Condor': 2
      [key |-> <<"S", "O", "3", " ", "D", "e", "c", "2", "6", " ", "3", "m", "o", " ", "C", "o", "n", "d", "o", "r">>,
       value |-> 2 * Leg],   \* 'SO3 Dec26 3mo Condor': 2
      [key |-> <<"S", "O", "3", " ", "M", "a", "r", "2", "7", " ", "3", "m", "o", " ", "C", "o", "n", "d", "o", "r">>,
       value |-> 2 * Leg],   \* 'SO3 Mar27 3mo Condor': 2
      [key |-> <<"S", "O", "3", " ", "J", "u", "n", "2", "7", " ", "3", "m", "o", " ", "C", "o", "n", "d", "o", "r">>,
       value |-> 2 * Leg],   \* 'SO3 Jun27 3mo Condor': 2
      [key |-> <<"S", "A", "3", " ", "D", "e", "c", "2", "5">>,
       value |-> Leg \div 2],   \* 'SA3 Dec25': 0.5
      [key |-> <<"E", "R", "3", " ", "D", "e", "c", "2", "5">>,
       value |-> Leg \div 2]   \* 'ER3 Dec25': 0.5
    >>

\* key.toLowerCase() of every entry of Object.entries(table)
LowerCaseKeys(table) == [i \in 1..Len(table) |-> toLowerCase(table[i].key)]

STRUCTURE_RT_LEGS_LowerCaseKeys == LowerCaseKeys(STRUCTURE_RT_LEGS)

\* for (const [key, value] of Object.entries(table)) if (key.toLowerCase() === normalized) return value
HasLowerCaseMatch(lowerKeys, normalized) ==
    \E i \in 1..Len(lowerKeys) : lowerKeys[i] = normalized

FirstLowerCaseMatch(table, lowerKeys, normalized) ==
    LET first == CHOOSE i \in 1..Len(lowerKeys) :
                    /\ lowerKeys[i] = normalized
                    /\ \A j \in 1..(i - 1) : lowerKeys[j] # normalized
    IN  table[first].value

\* structureConfig.js:232-234   return 1
DefaultRTLegs_Zero == 0 * Leg

DefaultRTLegs == 1 * Leg

\* structureConfig.js:223-234, the substring patterns and the default
PatternRTLegs_CondorFirst(normalized) ==
    IF includes(normalized, <<"3", "m", "o", " ", "c", "o", "n", "d", "o", "r">>)
       \/ includes(normalized, <<"c", "o", "n", "d", "o", "r">>) THEN 2 * Leg
    ELSE IF includes(normalized, <<"f", "l", "y", " ", "c", "o", "n", "d", "o", "r">>) THEN 6 * Leg
    ELSE IF includes(normalized, <<"3", " ", "d", "-", "f", "l", "y">>)
       \/ includes(normalized, <<"3", " ", "d", " ", "f", "l", "y">>) THEN 4 * Leg
    ELSE IF includes(normalized, <<"d", "-", "f", "l", "y">>)
       \/ includes(normalized, <<"d", " ", "f", "l", "y">>) THEN 4 * Leg
    ELSE IF includes(normalized, <<"3", " ", "f", "l", "y">>) THEN 2 * Leg
    ELSE IF includes(normalized, <<"3", "m", "o", " ", "b", "u", "t", "t", "e", "r", "f", "l", "y">>)
       \/ includes(normalized, <<"b", "u", "t", "t", "e", "r", "f", "l", "y">>) THEN 2 * Leg
    ELSE IF includes(normalized, <<"c", "a", "l", "e", "n", "d", "a", "r">>) THEN 1 * Leg
    ELSE DefaultRTLegs

PatternRTLegs(normalized) ==
    IF includes(normalized, <<"f", "l", "y", " ", "c", "o", "n", "d", "o", "r">>) THEN 6 * Leg
    ELSE IF includes(normalized, <<"3", " ", "d", "-", "f", "l", "y">>)
       \/ includes(normalized, <<"3", " ", "d", " ", "f", "l", "y">>) THEN 4 * Leg
    ELSE IF includes(normalized, <<"d", "-", "f", "l", "y">>)
       \/ includes(normalized, <<"d", " ", "f", "l", "y">>) THEN 4 * Leg
    ELSE IF includes(normalized, <<"3", " ", "f", "l", "y">>) THEN 2 * Leg
    ELSE IF includes(normalized, <<"3", "m", "o", " ", "b", "u", "t", "t", "e", "r", "f", "l", "y">>)
       \/ includes(normalized, <<"b", "u", "t", "t", "e", "r", "f", "l", "y">>) THEN 2 * Leg
    ELSE IF includes(normalized, <<"3", "m", "o", " ", "c", "o", "n", "d", "o", "r">>)
       \/ includes(normalized, <<"c", "o", "n", "d", "o", "r">>) THEN 2 * Leg
    ELSE IF includes(normalized, <<"c", "a", "l", "e", "n", "d", "a", "r">>) THEN 1 * Leg
    ELSE DefaultRTLegs

getStructureRTLegs(name) ==
    LET normalized == trim(toLowerCase(name))
    IN  IF HasOwn(customStructures, name) THEN Get(customStructures, name)
        ELSE IF HasOwn(STRUCTURE_RT_LEGS, name) THEN Get(STRUCTURE_RT_LEGS, name)
        ELSE IF HasLowerCaseMatch(STRUCTURE_RT_LEGS_LowerCaseKeys, normalized)
             THEN FirstLowerCaseMatch(STRUCTURE_RT_LEGS, STRUCTURE_RT_LEGS_LowerCaseKeys,
                                      normalized)
        ELSE IF HasLowerCaseMatch(LowerCaseKeys(customStructures), normalized)
             THEN FirstLowerCaseMatch(customStructures, LowerCaseKeys(customStructures),
                                      normalized)
        ELSE PatternRTLegs(normalized)

\* structureConfig.js:240-250; the number of ticks is the exact quotient, and the
\* dollars are in half-cents, a fraction of a half-cent dropped
priceToTicks(priceDiff) == [num |-> priceDiff, den |-> TICK_SIZE]

pricePnLToDollars(pricePnL) ==
    IF priceToTicks(pricePnL).num * TICK_VALUE >= 0
    THEN (priceToTicks(pricePnL).num * TICK_VALUE) \div priceToTicks(pricePnL).den
    ELSE -((-(priceToTicks(pricePnL).num * TICK_VALUE)) \div priceToTicks(pricePnL).den)

\* structureConfig.js:260-264
calculateRTCost_ExitOneLeg(quantity, rtLegs) ==
    LET totalLegs == rtLegs + 1 * Leg
    IN  quantity * totalLegs * RT_COST_PER_LOT

calculateRTCost(quantity, rtLegs) ==
    LET totalLegs == rtLegs * 2
    IN  quantity * totalLegs * RT_COST_PER_LOT

\* structureConfig.js:269-271
getTotalRTLegs(rtLegs) == rtLegs * 2

-----------------------------------------------------------------------------
(* The heap.  Objects are records; a reference is an index of fifo.heap.     *)
(* The input trades are the objects trades[1], ..., trades[Len(trades)].     *)

\* { ...obj }: a new object with the same own properties
SpreadCopy_SameObject(heap, ref) == [heap |-> heap, ref |-> ref]

SpreadCopy(heap, ref) == [heap |-> Append(heap, heap[ref]), ref |-> Len(heap) + 1]

\* insightsGenerator.js:661-666 and 719-724
\*   { ...trade, quantity: remainingQty, originalQty: quantity, entryOrder: entryIndex }
QueueEntry(trade, remainingQty, quantity, entryIndex) ==
    [field \in DOMAIN trade \cup {"quantity", "originalQty", "entryOrder"} |->
        IF field = "quantity" THEN remainingQty
        ELSE IF field = "originalQty" THEN quantity
        ELSE IF field = "entryOrder" THEN entryIndex
        ELSE trade[field]]

\* the object pushed on a queue is a new one
NewQueueEntry_InPlace(heap, tradeRef, remainingQty, quantity, entryIndex) ==
    [heap |-> [heap EXCEPT ![tradeRef] =
                  QueueEntry(heap[tradeRef], remainingQty, quantity, entryIndex)],
     ref |-> tradeRef]

NewQueueEntry(heap, tradeRef, remainingQty, quantity, entryIndex) ==
    [heap |-> Append(heap, QueueEntry(heap[tradeRef], remainingQty, quantity, entryIndex)),
     ref |-> Len(heap) + 1]

-----------------------------------------------------------------------------
(* insightsGenerator.js:576-777, calculateFIFOPnL *)

Min(a, b) == IF a <= b THEN a ELSE b

RECURSIVE SumQuantity(_, _)
SumQuantity(heap, queue) ==
    IF queue = <<>> THEN 0 ELSE heap[Head(queue)].quantity + SumQuantity(heap, Tail(queue))

RECURSIVE SumPriceQuantity(_, _)
SumPriceQuantity(heap, queue) ==
    IF queue = <<>> THEN 0
    ELSE heap[Head(queue)].price * heap[Head(queue)].quantity
         + SumPriceQuantity(heap, Tail(queue))

RECURSIVE SumMatchQty(_)
SumMatchQty(ms) == IF ms = <<>> THEN 0 ELSE Head(ms).matchQty + SumMatchQty(Tail(ms))

\* a quotient of two numbers, kept as a fraction
Ratio(num, den) == [num |-> num, den |-> den]

\* insightsGenerator.js:606   for (const trade of trades): array order
RECURSIVE InsertByTimestamp(_, _, _)
InsertByTimestamp(heap, sorted, ref) ==
    IF sorted = <<>> THEN <<ref>>
    ELSE IF heap[ref].timestamp < heap[Head(sorted)].timestamp THEN <<ref>> \o sorted
    ELSE <<Head(sorted)>> \o InsertByTimestamp(heap, Tail(sorted), ref)

RECURSIVE SortByTimestamp(_, _)
SortByTimestamp(heap, refs) ==
    IF refs = <<>> THEN <<>>
    ELSE InsertByTimestamp(heap, SortByTimestamp(heap, SubSeq(refs, 1, Len(refs) - 1)),
                           refs[Len(refs)])

IterationOrder_ByTimestamp(heap, refs) == SortByTimestamp(heap, refs)

IterationOrder(heap, refs) == refs

\* insightsGenerator.js:617 and 675   queue[0]
Oldest_Last(queue) == queue[Len(queue)]

Oldest(queue) == queue[1]

\* insightsGenerator.js:622   matchQty * (oldestShort.price - price)
CoverShortPnL_Reversed(matchQty, shortPrice, buyPrice) == matchQty * (buyPrice - shortPrice)

CoverShortPnL(matchQty, shortPrice, buyPrice) == matchQty * (shortPrice - buyPrice)

\* insightsGenerator.js:680   matchQty * (price - oldestLong.price)
CloseLongPnL(matchQty, sellPrice, buyPrice) == matchQty * (sellPrice - buyPrice)

\* insightsGenerator.js:628 and 686   grossDollars - rtCost
NetDollars_Gross(grossDollars, rtCost) == grossDollars

NetDollars(grossDollars, rtCost) == grossDollars - rtCost

\* insightsGenerator.js:581   structureName ? getStructureRTLegs(structureName) : 1
RTLegsFor(name) == IF name # <<>> THEN getStructureRTLegs(name) ELSE 1 * Leg

\* the state of a call before its first statement: the heap holds the input trades
CallState(heap) ==
    [pc |-> "call", heap |-> heap,
     rtLegs |-> 0, totalRtLegsPerRoundTrip |-> 0,
     longQueue |-> <<>>, shortQueue |-> <<>>, matches |-> <<>>,
     realizedPnL |-> 0, totalBuyQty |-> 0, totalSellQty |-> 0,
     totalBuyCost |-> 0, totalSellProceeds |-> 0,
     realizedPnLDollars |-> 0, totalRTCost |-> 0, grossPnLDollars |-> 0,
     entryIndex |-> 0, trade |-> 0, remainingQty |-> 0, book |-> <<>>]

\* insightsGenerator.js:580-604
EnterStepFor(m, name) ==
    LET rtLegs == RTLegsFor(name)
    IN  [m EXCEPT !.pc = "for",
                  !.rtLegs = rtLegs,
                  !.totalRtLegsPerRoundTrip = getTotalRTLegs(rtLegs)]

EnterStep(m) == EnterStepFor(m, structureName)

\* insightsGenerator.js:606-613 and 669-671
ForNextEnabled(m) == m.pc = "for" /\ m.entryIndex < Len(trades)

ForNextStepOf(m, refs) ==
    LET ref == IterationOrder(m.heap, refs)[m.entryIndex + 1]
        trade == m.heap[ref]
        isBuy == trade.side = "BUY"
    IN  [m EXCEPT !.trade = ref,
                  !.remainingQty = trade.quantity,
                  !.entryIndex = @ + 1,
                  !.totalBuyQty = IF isBuy THEN @ + trade.quantity ELSE @,
                  !.totalBuyCost = IF isBuy THEN @ + trade.quantity * trade.price ELSE @,
                  !.totalSellQty = IF isBuy THEN @ ELSE @ + trade.quantity,
                  !.totalSellProceeds = IF isBuy THEN @ ELSE @ + trade.quantity * trade.price,
                  !.pc = IF isBuy THEN "whileShort" ELSE "whileLong"]

ForNextStep(m) == ForNextStepOf(m, trades)

\* MatchEnabled, were the loop an `if`: one match at most for a trade
MatchEnabled_Once(m) ==
    /\ \/ m.pc = "whileShort" /\ m.remainingQty > 0 /\ Len(m.shortQueue) > 0
       \/ m.pc = "whileLong" /\ m.remainingQty > 0 /\ Len(m.longQueue) > 0
    /\ \A i \in 1..Len(m.matches) : m.matches[i].exitOrder # m.entryIndex

\* insightsGenerator.js:616-657 (BUY against shortQueue) and 674-715 (SELL against longQueue):
\* one iteration of the while loop
MatchEnabled(m) ==
    \/ m.pc = "whileShort" /\ m.remainingQty > 0 /\ Len(m.shortQueue) > 0
    \/ m.pc = "whileLong" /\ m.remainingQty > 0 /\ Len(m.longQueue) > 0

MatchStep(m) ==
    LET covering == m.pc = "whileShort"
        queue == IF covering THEN m.shortQueue ELSE m.longQueue
        oldest == Oldest(queue)
        trade == m.heap[m.trade]
        matchQty == Min(m.remainingQty, m.heap[oldest].quantity)
        pnl == IF covering
               THEN CoverShortPnL(matchQty, m.heap[oldest].price, trade.price)
               ELSE CloseLongPnL(matchQty, trade.price, m.heap[oldest].price)
        grossDollars == pricePnLToDollars(pnl)
        rtCost == calculateRTCost(matchQty, m.rtLegs)
        netDollars == NetDollars(grossDollars, rtCost)
        open == SpreadCopy(m.heap, oldest)
        close == SpreadCopy(open.heap, m.trade)
        match == [openTrade |-> open.ref,
                  closeTrade |-> close.ref,
                  matchQty |-> matchQty,
                  pnl |-> pnl,
                  pnlDollars |-> grossDollars,
                  rtCost |-> rtCost,
                  netPnLDollars |-> netDollars,
                  rtLegsEntry |-> m.rtLegs,
                  rtLegsTotal |-> m.totalRtLegsPerRoundTrip,
                  type |-> IF covering THEN "COVER_SHORT" ELSE "CLOSE_LONG",
                  closedAt |-> trade.timestamp,
                  entryOrder |-> m.heap[oldest].entryOrder,
                  exitOrder |-> m.entryIndex]
        heap == [close.heap EXCEPT ![oldest].quantity = @ - matchQty]
        rest == IF heap[oldest].quantity = 0 THEN Tail(queue) ELSE queue
    IN  [m EXCEPT !.heap = heap,
                  !.realizedPnL = @ + pnl,
                  !.grossPnLDollars = @ + grossDollars,
                  !.totalRTCost = @ + rtCost,
                  !.realizedPnLDollars = @ + netDollars,
                  !.matches = Append(@, match),
                  !.remainingQty = @ - matchQty,
                  !.shortQueue = IF covering THEN rest ELSE @,
                  !.longQueue = IF covering THEN @ ELSE rest]

\* insightsGenerator.js:659-667 (BUY) and 717-725 (SELL): the while loop has ended
PushEnabled(m) == m.pc \in {"whileShort", "whileLong"} /\ ~MatchEnabled(m)

PushStep(m) ==
    LET entry == NewQueueEntry(m.heap, m.trade, m.remainingQty,
                               m.heap[m.trade].quantity, m.entryIndex)
    IN  IF m.remainingQty > 0
        THEN [m EXCEPT !.heap = entry.heap,
                       !.longQueue = IF m.pc = "whileShort" THEN Append(@, entry.ref) ELSE @,
                       !.shortQueue = IF m.pc = "whileLong" THEN Append(@, entry.ref) ELSE @,
                       !.pc = "for"]
        ELSE [m EXCEPT !.pc = "for"]

\* insightsGenerator.js:729-776
ReturnEnabled(m) == m.pc = "for" /\ m.entryIndex = Len(trades)

ReturnStep(m) ==
    LET openLongQty == SumQuantity(m.heap, m.longQueue)
        openShortQty == SumQuantity(m.heap, m.shortQueue)
        book == [realizedPnL |-> m.realizedPnL,
                 unrealizedPnL |-> 0,
                 realizedPnLDollars |-> m.realizedPnLDollars,
                 grossPnLDollars |-> m.grossPnLDollars,
                 totalRTCost |-> m.totalRTCost,
                 netPosition |-> openLongQty - openShortQty,
                 openLongQty |-> openLongQty,
                 openShortQty |-> openShortQty,
                 avgLongPrice |-> IF openLongQty > 0
                                  THEN Ratio(SumPriceQuantity(m.heap, m.longQueue), openLongQty)
                                  ELSE Ratio(0, 1),
                 avgShortPrice |-> IF openShortQty > 0
                                   THEN Ratio(SumPriceQuantity(m.heap, m.shortQueue), openShortQty)
                                   ELSE Ratio(0, 1),
                 avgBuyPrice |-> IF m.totalBuyQty > 0
                                 THEN Ratio(m.totalBuyCost, m.totalBuyQty) ELSE Ratio(0, 1),
                 avgSellPrice |-> IF m.totalSellQty > 0
                                  THEN Ratio(m.totalSellProceeds, m.totalSellQty) ELSE Ratio(0, 1),
                 totalBuyQty |-> m.totalBuyQty,
                 totalSellQty |-> m.totalSellQty,
                 closedQty |-> SumMatchQty(m.matches),
                 rtLegs |-> m.rtLegs,
                 totalRtLegsPerRoundTrip |-> m.totalRtLegsPerRoundTrip,
                 matches |-> m.matches,
                 longQueue |-> m.longQueue,
                 shortQueue |-> m.shortQueue]
    IN  [m EXCEPT !.pc = "done", !.book = <<book>>]

\* the next statement of the call
StepOf(m) ==
    IF m.pc = "call" THEN EnterStep(m)
    ELSE IF ForNextEnabled(m) THEN ForNextStep(m)
    ELSE IF MatchEnabled(m) THEN MatchStep(m)
    ELSE IF PushEnabled(m) THEN PushStep(m)
    ELSE ReturnStep(m)

\* the whole call
RECURSIVE RunToEnd(_)
RunToEnd(m) == IF m.pc = "done" THEN m ELSE RunToEnd(StepOf(m))

\* the next statement of a call with the arguments refs and name
StepFor(m, refs, name) ==
    IF m.pc = "call" THEN EnterStepFor(m, name)
    ELSE IF m.pc = "for" /\ m.entryIndex < Len(refs) THEN ForNextStepOf(m, refs)
    ELSE IF MatchEnabled(m) THEN MatchStep(m)
    ELSE IF PushEnabled(m) THEN PushStep(m)
    ELSE ReturnStep(m)

\* the whole call calculateFIFOPnL(refs, name)
RECURSIVE RunFor(_, _, _)
RunFor(m, refs, name) == IF m.pc = "done" THEN m ELSE RunFor(StepFor(m, refs, name), refs, name)

-----------------------------------------------------------------------------
(* Inputs *)

Sides == {"BUY", "SELL"}

\* lot counts: 1..MaxQty, and a negative count, which parseTradeRowPositional
\* (src/unnamed/part_000:363-366 rejects 0 only) lets into the trade log
Quantities == (1..MaxQty) \cup {-1}

\* prices, in thousandths: -0.010 and 0.010
Prices == {-10, 10}

Timestamps == 1..MaxTrades

\* trades whose list order is the reverse of their timestamp order
InputHeaps(n) ==
    {[i \in 1..n |-> [side |-> f[i].side, quantity |-> f[i].quantity,
                      price |-> f[i].price, timestamp |-> n + 1 - i]] :
        f \in [1..n -> [side : Sides, quantity : Quantities, price : Prices]]}

XYZ == <<"X", "Y", "Z">>

SON_Mar26_3_Fly == <<"S", "O", "N", " ", "M", "a", "r", "2", "6", " ", "3", " ", "F", "l", "y">>

\* cost-per-leg values: the default $1.65 and $2.00
CostsPerLeg == {165, 200}

\* structure name and custom table of a computation
CostConfigs ==
    { [name |-> <<>>, custom |-> <<>>],
      [name |-> XYZ, custom |-> <<>>],
      [name |-> XYZ, custom |-> <<[key |-> XYZ, value |-> Leg \div 2]>>],
      [name |-> SON_Mar26_3_Fly, custom |-> <<>>],
      [name |-> SON_Mar26_3_Fly, custom |-> <<[key |-> SON_Mar26_3_Fly, value |-> 3 * Leg]>>] }

\* names looked up and custom keys of the table operations
LookupNames ==
    { <<"S", "O", "N", " ", "M", "a", "r", "2", "6", " ", "D", "-", "F", "l", "y">>,
      <<"s", "o", "n", " ", "m", "a", "r", "2", "6", " ", "d", "-", "f", "l", "y">>,
      <<"S", "A", "3", " ", "D", "e", "c", "2", "5">>,
      <<"s", "a", "3", " ", "d", "e", "c", "2", "5">>,
      <<"X", "Y", "Z", " ", "F", "l", "y", " ", "C", "o", "n", "d", "o", "r">>,
      <<"x", "y", "z", " ", "f", "l", "y", " ", "c", "o", "n", "d", "o", "r">>,
      <<"X", "Y", "Z", " ", "3", " ", "D", " ", "F", "l", "y">>,
      <<"X", "Y", "Z", " ", "D", "-", "F", "l", "y">>,
      <<"X", "Y", "Z", " ", "3", " ", "F", "l", "y">>,
      <<"X", "Y", "Z", " ", "B", "u", "t", "t", "e", "r", "f", "l", "y">>,
      <<"X", "Y", "Z", " ", "C", "o", "n", "d", "o", "r", " ", "C", "a", "l", "e", "n", "d", "a", "r">>,
      <<"X", "Y", "Z", " ", "C", "a", "l", "e", "n", "d", "a", "r">>,
      <<"X", "Y", "Z">>,
      <<"x", "y", "z">> }

CustomNames ==
    { <<"S", "O", "N", " ", "M", "a", "r", "2", "6", " ", "D", "-", "F", "l", "y">>,
      <<"x", "y", "z", " ", "f", "l", "y", " ", "c", "o", "n", "d", "o", "r">>,
      <<"X", "y", "z">>,
      <<"x", "y", "z">> }

\* Dashboard.jsx:839-847 and 1025: leg counts the settings form offers
CustomLegs == {Leg \div 2, 3 * Leg}

-----------------------------------------------------------------------------
(* localStorage: the item is absent, or holds the JSON text of the table.   *)
(* A JSON text of an object is the sequence of its members <<name, number>> *)

NoItem == [present |-> FALSE, text |-> <<>>]

JSONStringify(obj) == [i \in 1..Len(obj) |-> <<obj[i].key, obj[i].value>>]

JSONParse(text) == [i \in 1..Len(text) |-> [key |-> text[i][1], value |-> text[i][2]]]

\* structureConfig.js:137-143
saveCustomStructures(table) == [present |-> TRUE, text |-> JSONStringify(table)]

StoredFor(table) == IF table = <<>> THEN NoItem ELSE saveCustomStructures(table)

-----------------------------------------------------------------------------
(* Actions of a calculateFIFOPnL call *)

\* the variables of the views
ViewVars == <<normalizations, structuresData, analytics, selectedStructure>>

\* the variables of the settings panel, the parser and the statistics
InputVars == <<input, parse, tradeLog, manualForm, parseStatus, pnlStats, ViewVars>>

OtherVars == <<settingsItem, settingsPanel, builtIn, session, InputVars>>

\* no parseTrades call
NoCall == [pc |-> "none", lines |-> <<>>, i |-> 0, trades |-> <<>>, errors |-> <<>>]

\* the day and the minute the page is loaded at
Today == <<"2", "0", "2", "5", "-", "0", "6", "-", "1", "6">>

Now == <<"1", "0", ":", "0", "0">>

\* TradeInput.jsx:59-67
DefaultManualForm ==
    [structure |-> <<>>, side |-> <<"B", "U", "Y">>, quantity |-> <<"1">>, price |-> <<>>,
     date |-> Today, time |-> Now, exchange |-> <<"I", "C", "E", "_", "L">>]

\* App.jsx:14 and TradeInput.jsx:55-67: an empty log, the form as it is mounted
EntryInit ==
    /\ tradeLog = <<>>
    /\ manualForm = DefaultManualForm
    /\ parseStatus = [value |-> <<>>, timers |-> 0]

\* nothing saved, nothing mounted
SettingsInit ==
    /\ settingsItem = NoItem
    /\ settingsPanel = <<>>
    /\ builtIn = STRUCTURE_RT_LEGS
    /\ session = 1

\* nothing saved, nothing mounted, nothing pasted or entered, no trade to show
PipelineInit ==
    /\ SettingsInit
    /\ input = <<>>
    /\ parse = NoCall
    /\ EntryInit
    /\ pnlStats = <<>>
    /\ structuresData = <<>>
    /\ analytics = <<>>
    /\ selectedStructure = <<>>

OtherInit == PipelineInit /\ normalizations = <<>>

Untouched == UNCHANGED <<customStructures, localStorage, TICK_VALUE, TICK_SIZE,
                         RT_COST_PER_LOT, lookup, trades, structureName, OtherVars>>

Enter == fifo.pc = "call" /\ fifo' = EnterStep(fifo) /\ Untouched

ForNext == ForNextEnabled(fifo) /\ fifo' = ForNextStep(fifo) /\ Untouched

Match == MatchEnabled(fifo) /\ fifo' = MatchStep(fifo) /\ Untouched

Push == PushEnabled(fifo) /\ fifo' = PushStep(fifo) /\ Untouched

Return == ReturnEnabled(fifo) /\ fifo' = ReturnStep(fifo) /\ Untouched

Next == Enter \/ ForNext \/ Match \/ Push \/ Return

\* the matcher on every trade list, with the built-in table and the default constants
Init ==
    /\ customStructures = <<>>
    /\ localStorage = NoItem
    /\ TICK_VALUE = 3300
    /\ TICK_SIZE = 5
    /\ RT_COST_PER_LOT = 165
    /\ lookup = <<>>
    /\ structureName = SON_Mar26_3_Fly
    /\ \E n \in 0..MaxTrades :
          /\ trades = [i \in 1..n |-> i]
          /\ \E heap \in InputHeaps(n) : fifo = CallState(heap)
    /\ OtherInit

Spec == Init /\ [][Next]_vars

\* the matcher under every cost configuration
InitCost ==
    /\ \E c \in CostConfigs :
          /\ structureName = c.name
          /\ customStructures = c.custom
          /\ localStorage = StoredFor(c.custom)
    /\ TICK_VALUE = 3300
    /\ TICK_SIZE = 5
    /\ RT_COST_PER_LOT \in CostsPerLeg
    /\ lookup = <<>>
    /\ \E n \in 0..MaxCostTrades :
          /\ trades = [i \in 1..n |-> i]
          /\ \E heap \in InputHeaps(n) : fifo = CallState(heap)
    /\ OtherInit

SpecCost == InitCost /\ [][Next]_vars

-----------------------------------------------------------------------------
(* Actions on the structure-cost table *)

Idle == UNCHANGED <<TICK_VALUE, TICK_SIZE, RT_COST_PER_LOT, trades, structureName, fifo,
                    OtherVars>>

\* structureConfig.js:148-151
addCustomStructure(name, rtLegs) ==
    /\ customStructures' = Put(customStructures, name, rtLegs)
    /\ localStorage' = saveCustomStructures(customStructures')
    /\ UNCHANGED lookup
    /\ Idle

\* structureConfig.js:156-159
removeCustomStructure_NoSave(name) ==
    /\ customStructures' = Delete(customStructures, name)
    /\ UNCHANGED <<localStorage, lookup>>
    /\ Idle

removeCustomStructure(name) ==
    /\ customStructures' = Delete(customStructures, name)
    /\ localStorage' = saveCustomStructures(customStructures')
    /\ UNCHANGED lookup
    /\ Idle

\* a call getStructureRTLegs(name)
Lookup(name) ==
    /\ lookup' = <<[name |-> name, result |-> getStructureRTLegs(name)]>>
    /\ UNCHANGED <<customStructures, localStorage>>
    /\ Idle

\* Dashboard.jsx:862-876: handleAddStructure, handleRemoveStructure
NextLegs ==
    \/ \E name \in CustomNames, rtLegs \in CustomLegs : addCustomStructure(name, rtLegs)
    \/ \E name \in Keys(customStructures) : removeCustomStructure(name)
    \/ \E name \in LookupNames : Lookup(name)

\* no custom structure, the default constants, no calculateFIFOPnL call
MatcherInit ==
    /\ customStructures = <<>>
    /\ localStorage = NoItem
    /\ TICK_VALUE = 3300
    /\ TICK_SIZE = 5
    /\ RT_COST_PER_LOT = 165
    /\ lookup = <<>>
    /\ structureName = <<>>
    /\ trades = <<>>
    /\ fifo = CallState(<<>>)

InitLegs == MatcherInit /\ OtherInit

SpecLegs == InitLegs /\ [][NextLegs]_vars

-----------------------------------------------------------------------------
(* Properties *)

RECURSIVE SumSeq(_)
SumSeq(s) == IF s = <<>> THEN 0 ELSE Head(s) + SumSeq(Tail(s))

Matches == fifo.matches

OpenOf(match) == fifo.heap[match.openTrade]

CloseOf(match) == fifo.heap[match.closeTrade]

InputTrade(i) == fifo.heap[trades[i]]

Returned == fifo.pc = "done"

Book == fifo.book[1]

\* the queue the trade being processed is matched against
OppositeQueue(m) == IF m.heap[m.trade].side = "BUY" THEN m.shortQueue ELSE m.longQueue

\* the queue the remainder of the trade being processed is pushed on
OwnQueue(m) == IF m.heap[m.trade].side = "BUY" THEN m.longQueue ELSE m.shortQueue

MatchedSoFar(m) ==
    SumSeq([i \in 1..Len(m.matches) |->
               IF m.matches[i].exitOrder = m.entryIndex THEN m.matches[i].matchQty ELSE 0])

\* C1: both queues are in increasing entryOrder, a trade's matches are in increasing
\* entryOrder, every match is made against the entry of the opposite queue with the
\* smallest entryOrder, for min(remaining, resting) lots, and a remainder is pushed
\* only once the opposite queue is empty, with the quantity the matches left.
C1_OldestFirst ==
    /\ \A q \in {fifo.longQueue, fifo.shortQueue} : \A i, j \in 1..Len(q) :
          i < j => fifo.heap[q[i]].entryOrder < fifo.heap[q[j]].entryOrder
    /\ \A i, j \in 1..Len(Matches) :
          i < j /\ Matches[i].exitOrder = Matches[j].exitOrder
             => Matches[i].entryOrder < Matches[j].entryOrder

C1_MatchStep ==
    Len(fifo'.matches) > Len(fifo.matches) =>
        LET new == fifo'.matches[Len(fifo'.matches)]
            opposite == OppositeQueue(fifo)
        IN  /\ opposite # <<>>
            /\ new.exitOrder = fifo.entryIndex
            /\ \A k \in 1..Len(opposite) : new.entryOrder <= fifo.heap[opposite[k]].entryOrder
            /\ \E k \in 1..Len(opposite) :
                  /\ fifo.heap[opposite[k]].entryOrder = new.entryOrder
                  /\ new.matchQty = Min(fifo.remainingQty, fifo.heap[opposite[k]].quantity)
                  /\ fifo'.heap[opposite[k]].quantity
                        = fifo.heap[opposite[k]].quantity - new.matchQty

C1_PushStep ==
    Len(fifo'.longQueue) + Len(fifo'.shortQueue) > Len(fifo.longQueue) + Len(fifo.shortQueue) =>
        LET own == OwnQueue(fifo')
            pushed == fifo'.heap[own[Len(own)]]
        IN  /\ OppositeQueue(fifo) = <<>>
            /\ Len(own) = Len(OwnQueue(fifo)) + 1
            /\ pushed.entryOrder = fifo.entryIndex
            /\ pushed.quantity = fifo.heap[fifo.trade].quantity - MatchedSoFar(fifo)
            /\ pushed.quantity > 0

C1_FIFOOrder == [](C1_OldestFirst) /\ [][C1_MatchStep /\ C1_PushStep]_vars

\* one incoming trade consumed two resting entries, oldest first, and part of the
\* second one still rests
C1_Witness ==
    /\ Returned
    /\ Len(Matches) = 2
    /\ Matches[1].entryOrder = 1 /\ Matches[1].exitOrder = 3
    /\ Matches[2].entryOrder = 2 /\ Matches[2].exitOrder = 3
    /\ Matches[1].matchQty = 2 /\ Matches[2].matchQty = 1
    /\ Len(fifo.longQueue) = 1 /\ fifo.heap[fifo.longQueue[1]].quantity = 2

\* C2: the returned book has netPosition = totalBuyQty - totalSellQty.
C2_NetPositionConservation ==
    Returned => Book.netPosition = Book.totalBuyQty - Book.totalSellQty

\* C3: a match closed by a SELL is a CLOSE_LONG of a resting buy with
\* pnl = matchQty * (sellPrice - buyPrice); a match closed by a BUY is a COVER_SHORT
\* of a resting sell with pnl = matchQty * (shortPrice - buyPrice); there is no
\* other type.
C3_MatchTypeAndPnL ==
    \A i \in 1..Len(Matches) :
        LET match == Matches[i]
            open == OpenOf(match)
            close == CloseOf(match)
        IN  /\ match.type \in {"CLOSE_LONG", "COVER_SHORT"}
            /\ close.side = "SELL" =>
                  /\ match.type = "CLOSE_LONG"
                  /\ open.side = "BUY"
                  /\ match.pnl = match.matchQty * (close.price - open.price)
            /\ close.side = "BUY" =>
                  /\ match.type = "COVER_SHORT"
                  /\ open.side = "SELL"
                  /\ match.pnl = match.matchQty * (open.price - close.price)

\* a long bought at -0.010 and sold at 0.010, and a short sold at 0.010 and bought
\* back at -0.010: both profits
C3_Witness ==
    /\ Returned
    /\ \E i \in 1..Len(Matches) :
          /\ Matches[i].type = "CLOSE_LONG" /\ Matches[i].matchQty = 1 /\ Matches[i].pnl = 20
    /\ \E i \in 1..Len(Matches) :
          /\ Matches[i].type = "COVER_SHORT" /\ Matches[i].matchQty = 1 /\ Matches[i].pnl = 20

C5_NetIsGrossMinusCost ==
    LET gross == SumSeq([i \in 1..Len(Matches) |-> Matches[i].pnlDollars])
        cost == SumSeq([i \in 1..Len(Matches) |-> Matches[i].rtCost])
        net == SumSeq([i \in 1..Len(Matches) |-> Matches[i].netPnLDollars])
    IN  /\ \A i \in 1..Len(Matches) :
              Matches[i].netPnLDollars = Matches[i].pnlDollars - Matches[i].rtCost
        /\ fifo.grossPnLDollars = gross
        /\ fifo.totalRTCost = cost
        /\ fifo.realizedPnLDollars = net
        /\ fifo.realizedPnLDollars = fifo.grossPnLDollars - fifo.totalRTCost
        /\ Returned =>
              /\ Book.grossPnLDollars = gross
              /\ Book.totalRTCost = cost
              /\ Book.realizedPnLDollars = net
              /\ Book.realizedPnLDollars = Book.grossPnLDollars - Book.totalRTCost

\* two matches, one winning and one scratch, each with its cost
C5_Witness ==
    /\ Returned
    /\ Len(Matches) = 2
    /\ Matches[1].pnlDollars > 0 /\ Matches[2].pnlDollars = 0
    /\ Matches[2].netPnLDollars < 0
    /\ Book.totalRTCost > 0
    /\ Book.realizedPnLDollars # Book.grossPnLDollars

\* what a book says of the pairings: who was matched with whom, for how much
Pairings(m) ==
    [i \in 1..Len(m.matches) |->
        [entryOrder |-> m.matches[i].entryOrder,
         exitOrder |-> m.matches[i].exitOrder,
         matchQty |-> m.matches[i].matchQty,
         type |-> m.matches[i].type,
         pnl |-> m.matches[i].pnl,
         pnlDollars |-> m.matches[i].pnlDollars,
         rtCost |-> m.matches[i].rtCost,
         netPnLDollars |-> m.matches[i].netPnLDollars]]

\* the input trades with other timestamps
Restamped(ts) == [i \in 1..Len(trades) |-> [InputTrade(i) EXCEPT !.timestamp = ts[i]]]

\* other timestamps for the list: in list order, all equal, alternating
AltTimestamps ==
    { [i \in 1..Len(trades) |-> i],
      [i \in 1..Len(trades) |-> 1],
      [i \in 1..Len(trades) |-> i % 2] }

\* C6: a match's exitOrder is the list index of its closing trade and its entryOrder
\* the list index of the trade that opened the position, entryOrder < exitOrder, and
\* the same list with other timestamps gives the same pairings, quantities and P&L.
C6_ListOrderNotTimestamp ==
    /\ \A i \in 1..Len(Matches) :
          LET match == Matches[i]
              open == OpenOf(match)
              close == CloseOf(match)
          IN  /\ 1 <= match.entryOrder
              /\ match.entryOrder < match.exitOrder
              /\ match.exitOrder <= Len(trades)
              /\ close = InputTrade(match.exitOrder)
              /\ match.closedAt = InputTrade(match.exitOrder).timestamp
              /\ open.entryOrder = match.entryOrder
              /\ open.side = InputTrade(match.entryOrder).side
              /\ open.price = InputTrade(match.entryOrder).price
              /\ open.timestamp = InputTrade(match.entryOrder).timestamp
              /\ open.originalQty = InputTrade(match.entryOrder).quantity
    /\ Returned =>
          \A ts \in AltTimestamps :
              LET other == RunToEnd(CallState(Restamped(ts)))
              IN  /\ Pairings(other) = Pairings(fifo)
                  /\ other.book[1].realizedPnL = Book.realizedPnL
                  /\ other.book[1].realizedPnLDollars = Book.realizedPnLDollars
                  /\ other.book[1].netPosition = Book.netPosition

\* the trade entered first has the latest timestamp and is the one matched first
C6_Witness ==
    /\ Returned
    /\ Len(trades) = 3
    /\ Len(Matches) = 2
    /\ InputTrade(1).timestamp > InputTrade(2).timestamp
    /\ Matches[1].entryOrder = 1 /\ Matches[1].exitOrder = 3
    /\ Matches[2].entryOrder = 2 /\ Matches[2].exitOrder = 3

\* a book with every reference replaced by the object it refers to
BookValue(m) ==
    [m.book[1] EXCEPT
        !.longQueue = [i \in 1..Len(@) |-> m.heap[@[i]]],
        !.shortQueue = [i \in 1..Len(@) |-> m.heap[@[i]]],
        !.matches = [i \in 1..Len(@) |->
                        [@[i] EXCEPT !.openTrade = m.heap[@], !.closeTrade = m.heap[@]]]]

\* C7: no step of the call changes an input trade, and the call made again on the
\* same list returns the same book.
C7_InputsUnchanged == \A i \in 1..Len(trades) : fifo'.heap[trades[i]] = fifo.heap[trades[i]]

C7_SameBookAgain ==
    Returned =>
        BookValue(RunToEnd(CallState(SubSeq(fifo.heap, 1, Len(trades))))) = BookValue(fifo)

C7_PureFunction == [](C7_SameBookAgain) /\ [][C7_InputsUnchanged]_vars

\* a trade of 3 lots rested, was matched for 1 lot and rests with 2: the input
\* trade still has its 3 lots
C7_Witness ==
    /\ Returned
    /\ Len(trades) = 2
    /\ InputTrade(1).quantity = 3
    /\ Len(Matches) = 1 /\ Matches[1].matchQty = 1
    /\ Len(fifo.longQueue) = 1 /\ fifo.heap[fifo.longQueue[1]].quantity = 2

\* C8: a match and the two records it holds never change once appended; its
\* openTrade has the quantity the resting entry had just before the match, so
\* matchQty <= openTrade.quantity <= openTrade.originalQty.
C8_Quantities ==
    \A i \in 1..Len(Matches) :
        /\ Matches[i].matchQty <= OpenOf(Matches[i]).quantity
        /\ OpenOf(Matches[i]).quantity <= OpenOf(Matches[i]).originalQty

C8_Step ==
    /\ \A i \in 1..Len(fifo.matches) :
          /\ fifo'.matches[i] = fifo.matches[i]
          /\ fifo'.heap[fifo.matches[i].openTrade] = fifo.heap[fifo.matches[i].openTrade]
          /\ fifo'.heap[fifo.matches[i].closeTrade] = fifo.heap[fifo.matches[i].closeTrade]
    /\ Len(fifo'.matches) > Len(fifo.matches) =>
          LET new == fifo'.matches[Len(fifo'.matches)]
              opposite == OppositeQueue(fifo)
          IN  \E k \in 1..Len(opposite) :
                  /\ fifo.heap[opposite[k]].entryOrder = new.entryOrder
                  /\ fifo'.heap[new.openTrade].quantity = fifo.heap[opposite[k]].quantity

C8_MatchImmutable == [](C8_Quantities) /\ [][C8_Step]_vars

\* an entry of 3 lots matched twice: the first match holds it with 3 lots, the
\* second with 2, and the entry rests with 1
C8_Witness ==
    /\ Returned
    /\ Len(Matches) = 2
    /\ Matches[1].entryOrder = 1 /\ Matches[2].entryOrder = 1
    /\ Matches[1].matchQty = 1 /\ OpenOf(Matches[1]).quantity = 3
    /\ Matches[2].matchQty = 1 /\ OpenOf(Matches[2]).quantity = 2
    /\ Len(fifo.longQueue) = 1 /\ fifo.heap[fifo.longQueue[1]].quantity = 1

\* the rules of the lookup, in their order: the substrings of each pattern and its legs
PatternRules ==
    << [substrings |-> {<<"f", "l", "y", " ", "c", "o", "n", "d", "o", "r">>},
        legs |-> 6 * Leg],
       [substrings |-> {<<"3", " ", "d", "-", "f", "l", "y">>, <<"3", " ", "d", " ", "f", "l", "y">>},
        legs |-> 4 * Leg],
       [substrings |-> {<<"d", "-", "f", "l", "y">>, <<"d", " ", "f", "l", "y">>},
        legs |-> 4 * Leg],
       [substrings |-> {<<"3", " ", "f", "l", "y">>},
        legs |-> 2 * Leg],
       [substrings |-> {<<"b", "u", "t", "t", "e", "r", "f", "l", "y">>},
        legs |-> 2 * Leg],
       [substrings |-> {<<"c", "o", "n", "d", "o", "r">>},
        legs |-> 2 * Leg],
       [substrings |-> {<<"c", "a", "l", "e", "n", "d", "a", "r">>},
        legs |-> 1 * Leg] >>

PatternApplies(k, name) ==
    \E sub \in PatternRules[k].substrings : includes(toLowerCase(name), sub)

\* the values of the entries of either table whose key is the name but for the case
CaseInsensitiveValues(name) ==
    {customStructures[i].value : i \in {j \in 1..Len(customStructures) :
        toLowerCase(customStructures[j].key) = toLowerCase(name)}}
    \cup
    {STRUCTURE_RT_LEGS[i].value : i \in {j \in 1..Len(STRUCTURE_RT_LEGS) :
        STRUCTURE_RT_LEGS_LowerCaseKeys[j] = toLowerCase(name)}}

\* the leg counts the first applicable rule allows for a name
ExpectedLegs(name) ==
    IF name \in Keys(customStructures)
    THEN {customStructures[i].value : i \in {j \in 1..Len(customStructures) :
                                                customStructures[j].key = name}}
    ELSE IF name \in Keys(STRUCTURE_RT_LEGS)
    THEN {STRUCTURE_RT_LEGS[i].value : i \in {j \in 1..Len(STRUCTURE_RT_LEGS) :
                                                 STRUCTURE_RT_LEGS[j].key = name}}
    ELSE IF CaseInsensitiveValues(name) # {}
    THEN CaseInsensitiveValues(name)
    ELSE IF \E k \in 1..Len(PatternRules) : PatternApplies(k, name)
    THEN {PatternRules[k].legs : k \in {j \in 1..Len(PatternRules) :
              PatternApplies(j, name) /\ \A h \in 1..(j - 1) : ~PatternApplies(h, name)}}
    ELSE {1 * Leg}

Unknown(name) ==
    /\ name \notin Keys(customStructures)
    /\ name \notin Keys(STRUCTURE_RT_LEGS)
    /\ CaseInsensitiveValues(name) = {}
    /\ \A k \in 1..Len(PatternRules) : ~PatternApplies(k, name)

\* C10: for a structure name that is in neither table and matches no pattern, the
\* lookup returns 1 leg, the call always has a next step until it has returned, and
\* every match is priced with 1 leg.
C10_UnknownStructureDefault ==
    Unknown(structureName) =>
        /\ getStructureRTLegs(structureName) = 1 * Leg
        /\ fifo.pc # "call" => fifo.rtLegs = 1 * Leg
        /\ fifo.pc # "done" => ENABLED Next
        /\ \A i \in 1..Len(Matches) :
              /\ Matches[i].rtLegsEntry = 1 * Leg
              /\ Matches[i].rtCost = (1 * Leg) * 2 * Matches[i].matchQty * RT_COST_PER_LOT

\* the book of the unknown structure XYZ has been returned with a match of 2 lots
\* priced at 1 leg and $1.65 per leg: $6.60
C10_Witness ==
    /\ Returned
    /\ structureName = XYZ
    /\ customStructures = <<>>
    /\ RT_COST_PER_LOT = 165
    /\ \E i \in 1..Len(Matches) : Matches[i].matchQty = 2 /\ Matches[i].rtCost = 1320

-----------------------------------------------------------------------------
(* The settings panel and the reload of the page.  A JSON text of the        *)
(* settings is the sequence of the members of its tradingConfig object.      *)

\* structureConfig.js:12-14: the initial values of the trading constants
DefaultTradingConfig == [tickValue |-> 3300, tickSize |-> 5, rtCostPerLot |-> 165]

\* values typed into the fields of the trading constants; -1 is refused
ConfigFields == {"tickValue", "tickSize", "rtCostPerLot"}

ConfigValues(field) ==
    IF field = "tickValue" THEN {3300, 2000, -1}
    ELSE IF field = "tickSize" THEN {5, 10, -1}
    ELSE {165, 200, -1}

\* custom structures of the settings panel: an unknown name, and a built-in one
PersistNames == {XYZ, SON_Mar26_3_Fly}

\* JSON.stringify({ tradingConfig })
SettingsStringify(tradingConfig) ==
    << <<"tickValue", tradingConfig.tickValue>>,
       <<"tickSize", tradingConfig.tickSize>>,
       <<"rtCostPerLot", tradingConfig.rtCostPerLot>> >>

\* JSON.parse(data).tradingConfig
SettingsParse(text) ==
    [name \in {text[i][1] : i \in 1..Len(text)} |->
        text[CHOOSE i \in 1..Len(text) : text[i][1] = name][2]]

\* storage, saveSettings
saveSettings(tradingConfig) == [present |-> TRUE, text |-> SettingsStringify(tradingConfig)]

\* structureConfig.js:123-132, on the table of line 118
loadCustomStructures(item) == IF item.present THEN JSONParse(item.text) ELSE <<>>

\* structureConfig.js:19-23
updateTradingConstants(tickValue, tickSize, rtCost) ==
    /\ TICK_VALUE' = tickValue
    /\ TICK_SIZE' = tickSize
    /\ RT_COST_PER_LOT' = rtCost

\* the variables of the matcher and of the lookup
MatcherVars == <<lookup, trades, structureName, fifo, builtIn, InputVars>>

\* Dashboard.jsx:824-860: the panel is mounted; its fields show the module's
\* constants, then the saved settings if there are any
OpenSettings ==
    /\ settingsPanel = <<>>
    /\ settingsPanel' =
          <<[tradingConfig |->
                IF settingsItem.present
                THEN SettingsParse(settingsItem.text)
                ELSE [tickValue |-> TICK_VALUE, tickSize |-> TICK_SIZE,
                      rtCostPerLot |-> RT_COST_PER_LOT],
             configChanged |-> FALSE]>>
    /\ UNCHANGED <<customStructures, localStorage, TICK_VALUE, TICK_SIZE, RT_COST_PER_LOT,
                   settingsItem, session, MatcherVars>>

\* App.jsx:170   onClose
CloseSettings ==
    /\ settingsPanel # <<>>
    /\ settingsPanel' = <<>>
    /\ UNCHANGED <<customStructures, localStorage, TICK_VALUE, TICK_SIZE, RT_COST_PER_LOT,
                   settingsItem, session, MatcherVars>>

\* Dashboard.jsx:887-893
handleConfigChange(field, numValue) ==
    /\ settingsPanel # <<>>
    /\ settingsPanel' =
          IF numValue >= 0
          THEN <<[tradingConfig |-> [settingsPanel[1].tradingConfig EXCEPT ![field] = numValue],
                  configChanged |-> TRUE]>>
          ELSE settingsPanel
    /\ UNCHANGED <<customStructures, localStorage, TICK_VALUE, TICK_SIZE, RT_COST_PER_LOT,
                   settingsItem, session, MatcherVars>>

\* Dashboard.jsx:895-902; the button is rendered when configChanged (964-968)
handleSaveConfig ==
    /\ settingsPanel # <<>>
    /\ settingsPanel[1].configChanged
    /\ updateTradingConstants(settingsPanel[1].tradingConfig.tickValue,
                              settingsPanel[1].tradingConfig.tickSize,
                              settingsPanel[1].tradingConfig.rtCostPerLot)
    /\ settingsItem' = saveSettings(settingsPanel[1].tradingConfig)
    /\ settingsPanel' = <<[settingsPanel[1] EXCEPT !.configChanged = FALSE]>>
    /\ UNCHANGED <<customStructures, localStorage, session, MatcherVars>>

\* Dashboard.jsx:904-907; the button is rendered when configChanged (964-973)
handleResetConfig ==
    /\ settingsPanel # <<>>
    /\ settingsPanel[1].configChanged
    /\ settingsPanel' = <<[tradingConfig |-> DefaultTradingConfig, configChanged |-> TRUE]>>
    /\ UNCHANGED <<customStructures, localStorage, TICK_VALUE, TICK_SIZE, RT_COST_PER_LOT,
                   settingsItem, session, MatcherVars>>

\* the page is loaded again: the modules are evaluated (structureConfig.js:12-14,
\* 118, 274), no component is mounted; the browser's store is kept
Restart ==
    /\ session < MaxSessions
    /\ session' = session + 1
    /\ TICK_VALUE' = DefaultTradingConfig.tickValue
    /\ TICK_SIZE' = DefaultTradingConfig.tickSize
    /\ RT_COST_PER_LOT' = DefaultTradingConfig.rtCostPerLot
    /\ customStructures' = loadCustomStructures(localStorage)
    /\ settingsPanel' = <<>>
    /\ UNCHANGED <<localStorage, settingsItem, MatcherVars>>

\* Dashboard.jsx:862-876: the handlers of the mounted panel
handleAddStructure(name, rtLegs) == settingsPanel # <<>> /\ addCustomStructure(name, rtLegs)

handleRemoveStructure(name) == settingsPanel # <<>> /\ removeCustomStructure(name)

NextPersist ==
    \/ OpenSettings
    \/ CloseSettings
    \/ \E field \in ConfigFields : \E numValue \in ConfigValues(field) :
          handleConfigChange(field, numValue)
    \/ handleSaveConfig
    \/ handleResetConfig
    \/ \E name \in PersistNames, rtLegs \in CustomLegs : handleAddStructure(name, rtLegs)
    \/ \E name \in Keys(customStructures) : handleRemoveStructure(name)
    \/ Restart

SpecPersist == InitLegs /\ [][NextPersist]_vars

-----------------------------------------------------------------------------
(* Properties of the settings and of the reload *)

\* the stored item is the JSON text of the custom table, and the built-in table is
\* the one of the source
C11_StoreHoldsTable ==
    /\ localStorage.present => JSONParse(localStorage.text) = customStructures
    /\ ~localStorage.present => customStructures = <<>>
    /\ builtIn = STRUCTURE_RT_LEGS

C11_RestartStep == Restart => customStructures' = customStructures

C11_BuiltInStep == builtIn' = builtIn

C12_SavedConstantsUsed ==
    session > 1 /\ settingsItem.present =>
        LET saved == SettingsParse(settingsItem.text)
        IN  /\ TICK_VALUE = saved.tickValue
            /\ TICK_SIZE = saved.tickSize
            /\ RT_COST_PER_LOT = saved.rtCostPerLot
            /\ pricePnLToDollars(saved.tickSize) = saved.tickValue
            /\ calculateRTCost(1, 1 * Leg) = (1 * Leg) * 2 * saved.rtCostPerLot

-----------------------------------------------------------------------------
(* Regular expressions of the parser.  A pattern is a sequence of items; an  *)
(* item matches min..max characters of a class, or is a negative lookahead,  *)
(* or the end of the string.  Repetitions are greedy, as in JavaScript.      *)

UpperCaseOf ==
    [c \in {LowerCaseLetters[k] : k \in 1..Len(LowerCaseLetters)} |->
        UpperCaseLetters[CHOOSE k \in 1..Len(LowerCaseLetters) : LowerCaseLetters[k] = c]]

UpperChar(c) == IF c \in DOMAIN UpperCaseOf THEN UpperCaseOf[c] ELSE c

toUpperCase(s) == [i \in 1..Len(s) |-> UpperChar(s[i])]

\* U+2013, U+2014 and U+00B7, each one character
EnDash == "en-dash"
EmDash == "em-dash"
MiddleDot == "middle-dot"

Digit == {"0", "1", "2", "3", "4", "5", "6", "7", "8", "9"}

Letter == DOMAIN LowerCaseOf \cup DOMAIN UpperCaseOf

\* \w and \s
WordChar == Letter \cup Digit \cup {"_"}

Space == {" ", "\t", "\n", "\r"}

\* no bound on a repetition; longer than every string of the inputs
Unbounded == 1000

Rep(chars, min, max) ==
    <<[chars |-> chars, min |-> min, max |-> max, notAhead |-> <<>>, atEnd |-> FALSE]>>

One(chars) == Rep(chars, 1, 1)

Opt(chars) == Rep(chars, 0, 1)

Plus(chars) == Rep(chars, 1, Unbounded)

Star(chars) == Rep(chars, 0, Unbounded)

\* the characters of a literal, one after the other
Lit(s) == [i \in 1..Len(s) |->
              [chars |-> {s[i]}, min |-> 1, max |-> 1, notAhead |-> <<>>, atEnd |-> FALSE]]

\* a literal under the flag i
LitI(s) == [i \in 1..Len(s) |->
               [chars |-> {LowerChar(s[i]), UpperChar(s[i])}, min |-> 1, max |-> 1,
                notAhead |-> <<>>, atEnd |-> FALSE]]

\* (?!pattern)
NotAhead(pattern) ==
    <<[chars |-> {}, min |-> 0, max |-> 0, notAhead |-> pattern, atEnd |-> FALSE]>>

\* $
AtEnd == <<[chars |-> {}, min |-> 0, max |-> 0, notAhead |-> <<>>, atEnd |-> TRUE]>>

\* the positions an item can end at when it starts at position i of s
ItemEnds(item, s, i) ==
    {j \in (i + item.min)..(IF i + item.max > Len(s) + 1 THEN Len(s) + 1 ELSE i + item.max) :
        \A k \in i..(j - 1) : s[k] \in item.chars}

\* the position after the match of pattern at position i of s that the backtracking
\* search finds first, 0 if there is none: the longest repetition is tried first
RECURSIVE MatchEnd(_, _, _), MatchEndAmong(_, _, _)
MatchEndAmong(pattern, s, ends) ==
    IF ends = {} THEN 0
    ELSE LET longest == CHOOSE j \in ends : \A h \in ends : h <= j
             end == MatchEnd(pattern, s, longest)
         IN  IF end # 0 THEN end ELSE MatchEndAmong(pattern, s, ends \ {longest})

MatchEnd(pattern, s, i) ==
    IF pattern = <<>> THEN i
    ELSE LET item == Head(pattern)
         IN  IF item.atEnd
             THEN IF i = Len(s) + 1 THEN MatchEnd(Tail(pattern), s, i) ELSE 0
             ELSE IF item.notAhead # <<>>
             THEN IF MatchEnd(item.notAhead, s, i) # 0 THEN 0
                  ELSE MatchEnd(Tail(pattern), s, i)
             ELSE MatchEndAmong(Tail(pattern), s, ItemEnds(item, s, i))

\* the first position of s at which pattern matches, 0 if there is none
MatchStart(pattern, s) ==
    LET starts == {i \in 1..(Len(s) + 1) : MatchEnd(pattern, s, i) # 0}
    IN  IF starts = {} THEN 0 ELSE CHOOSE i \in starts : \A h \in starts : i <= h

\* pattern.test(s), and the same for a pattern that begins with ^
Test(pattern, s) == MatchStart(pattern, s) # 0

TestAtStart(pattern, s) == MatchEnd(pattern, s, 1) # 0

\* s.replace(/pattern/g, replacement) for a replacement without group references
RECURSIVE ReplaceAllFrom(_, _, _, _)
ReplaceAllFrom(pattern, s, replacement, i) ==
    IF i > Len(s) + 1 THEN <<>>
    ELSE LET end == MatchEnd(pattern, s, i)
         IN  IF end = 0
             THEN IF i > Len(s) THEN <<>>
                  ELSE <<s[i]>> \o ReplaceAllFrom(pattern, s, replacement, i + 1)
             ELSE IF end = i
             THEN replacement \o (IF i > Len(s) THEN <<>>
                                  ELSE <<s[i]>> \o ReplaceAllFrom(pattern, s, replacement, i + 1))
             ELSE replacement \o ReplaceAllFrom(pattern, s, replacement, end)

ReplaceAll(pattern, s, replacement) == ReplaceAllFrom(pattern, s, replacement, 1)

\* s.replace(char, '') : the first occurrence of a character is removed
RemoveFirst(s, char) ==
    IF \E i \in 1..Len(s) : s[i] = char
    THEN LET first == CHOOSE i \in 1..Len(s) : s[i] = char /\ \A h \in 1..(i - 1) : s[h] # char
         IN  SubSeq(s, 1, first - 1) \o SubSeq(s, first + 1, Len(s))
    ELSE s

\* s.split(separator).map(p => p.trim()).filter(p => p) for a separator pattern that
\* matches at least one character
RECURSIVE SplitFrom(_, _, _, _)
SplitFrom(pattern, s, from, i) ==
    IF i > Len(s) THEN <<SubSeq(s, from, Len(s))>>
    ELSE LET end == MatchEnd(pattern, s, i)
         IN  IF end > i
             THEN <<SubSeq(s, from, i - 1)>> \o SplitFrom(pattern, s, end, end)
             ELSE SplitFrom(pattern, s, from, i + 1)

Split(pattern, s) == SplitFrom(pattern, s, 1, 1)

TrimAll(parts) == [i \in 1..Len(parts) |-> trim(parts[i])]

NonEmpty(parts) == SelectSeq(parts, LAMBDA part : part # <<>>)

-----------------------------------------------------------------------------
(* Numbers and dates of the parser.  A quantity is a number of lots, a price *)
(* is in thousandths, a time value is in seconds since 1970-01-01 00:00:00   *)
(* (the code's milliseconds are whole seconds for every parsed date); the    *)
(* local time zone is UTC.  Decimal fractions of the inputs have at most 3   *)
(* digits and no exponent; dates of the inputs are numeric (no month names,  *)
(* for which parseDate has a branch that is left out here).                  *)

DigitValue(c) == CHOOSE n \in 0..9 : <<"0", "1", "2", "3", "4", "5", "6", "7", "8", "9">>[n + 1] = c

\* a number too large for the arithmetic of the model: parseInt of more than 9 digits
Huge == 2000000000

RECURSIVE DigitsValue(_)
DigitsValue(digits) ==
    IF digits = <<>> THEN 0
    ELSE IF Len(digits) > 9 THEN Huge
    ELSE 10 * DigitsValue(SubSeq(digits, 1, Len(digits) - 1)) + DigitValue(digits[Len(digits)])

\* the longest prefix of s made of characters of a class
RECURSIVE PrefixOf(_, _)
PrefixOf(s, chars) ==
    IF s # <<>> /\ Head(s) \in chars THEN <<Head(s)>> \o PrefixOf(Tail(s), chars) ELSE <<>>

Drop(s, n) == SubSeq(s, n + 1, Len(s))

\* parseInt(s): leading white space, a sign, the digits that follow; NaN without a digit
parseInt(s) ==
    LET t == trimStart(s)
        negative == t # <<>> /\ Head(t) = "-"
        signed == t # <<>> /\ Head(t) \in {"-", "+"}
        digits == PrefixOf(IF signed THEN Tail(t) ELSE t, Digit)
    IN  IF digits = <<>> THEN [isNaN |-> TRUE, value |-> 0]
        ELSE [isNaN |-> FALSE,
              value |-> IF negative THEN -DigitsValue(digits) ELSE DigitsValue(digits)]

\* the first 3 digits of a fraction, as thousandths
Thousandths(fraction) ==
    DigitsValue(SubSeq(fraction \o <<"0", "0", "0">>, 1, 3))

\* parseFloat(s), in thousandths: leading white space, a sign, digits, a point and
\* digits; NaN without a digit.  isInteger is Number.isInteger of the result.
parseFloat(s) ==
    LET t == trimStart(s)
        negative == t # <<>> /\ Head(t) = "-"
        signed == t # <<>> /\ Head(t) \in {"-", "+"}
        body == IF signed THEN Tail(t) ELSE t
        whole == PrefixOf(body, Digit)
        rest == Drop(body, Len(whole))
        fraction == IF rest # <<>> /\ Head(rest) = "." THEN PrefixOf(Tail(rest), Digit) ELSE <<>>
        magnitude == 1000 * DigitsValue(whole) + Thousandths(fraction)
    IN  IF whole = <<>> /\ fraction = <<>> THEN [isNaN |-> TRUE, value |-> 0, isInteger |-> FALSE]
        ELSE [isNaN |-> FALSE,
              value |-> IF negative THEN -magnitude ELSE magnitude,
              isInteger |-> Thousandths(fraction) = 0]

\* n || fallback for a number n
OrElse(n, fallback) == IF n.isNaN \/ n.value = 0 THEN fallback ELSE n.value

\* days from 1970-01-01 to the day d of month m (1..12) of year y
DaysFromCivil(y, m, d) ==
    LET yy == IF m <= 2 THEN y - 1 ELSE y
        era == yy \div 400
        yoe == yy - era * 400
        doy == (153 * (IF m > 2 THEN m - 3 ELSE m + 9) + 2) \div 5 + d - 1
        doe == yoe * 365 + yoe \div 4 - yoe \div 100 + doy
    IN  era * 146097 + doe - 719468

NullDate == [kind |-> "null", time |-> 0]

InvalidDate == [kind |-> "invalid", time |-> 0]

\* new Date(year, monthIndex, day): months and days past the end carry over
NewDate(year, monthIndex, day) ==
    LET full == IF year >= 0 /\ year <= 99 THEN 1900 + year ELSE year
    IN  [kind |-> "date",
         time |-> (DaysFromCivil(full + (monthIndex \div 12), (monthIndex % 12) + 1, 1) + day - 1)
                     * 86400]

\* date.setHours(h), setMinutes(m), setSeconds(s) on a date whose field is 0; a value
\* of more than 9 digits is past the range of Date and leaves an Invalid Date
AddSeconds(date, n, unit) ==
    IF date.kind # "date" \/ n >= Huge \/ n <= -Huge THEN InvalidDate
    ELSE [kind |-> "date", time |-> date.time + n * unit]

\* /^(\d{4})-(\d{1,2})-(\d{1,2})$/
ISODatePattern ==
    Rep(Digit, 4, 4) \o One({"-"}) \o Rep(Digit, 1, 2) \o One({"-"}) \o Rep(Digit, 1, 2) \o AtEnd

\* /^(\d{1,2})[-\/.](\d{1,2})[-\/.](\d{2,4})$/
EuroDatePattern ==
    Rep(Digit, 1, 2) \o One({"-", "/", "."}) \o Rep(Digit, 1, 2) \o One({"-", "/", "."})
        \o Rep(Digit, 2, 4) \o AtEnd

\* the three groups of digits of a date that matched one of the two patterns
DateGroups(cleaned) ==
    LET groups == Split(One({"-", "/", "."}), cleaned)
    IN  [i \in 1..3 |-> parseInt(groups[i]).value]

\* part_000:111-163
parseDate(dateStr) ==
    IF dateStr = <<>> THEN NullDate
    ELSE LET cleaned == trim(dateStr)
             groups == DateGroups(cleaned)
             fullYear == IF groups[3] < 100 THEN 2000 + groups[3] ELSE groups[3]
         IN  IF TestAtStart(ISODatePattern, cleaned)
             THEN NewDate(groups[1], groups[2] - 1, groups[3])
             ELSE IF /\ TestAtStart(EuroDatePattern, cleaned)
                     /\ groups[2] >= 1 /\ groups[2] <= 12
                     /\ groups[1] >= 1 /\ groups[1] <= 31
             THEN NewDate(fullYear, groups[2] - 1, groups[1])
             ELSE NullDate

\* /(\d{2})\.\d+\s*$/
MillisecondsPattern ==
    Rep(Digit, 2, 2) \o One({"."}) \o Plus(Digit) \o Star(Space) \o AtEnd

\* cleaned.replace(/(\d{2})\.\d+\s*$/, '$1')
StripMilliseconds(cleaned) ==
    LET start == MatchStart(MillisecondsPattern, cleaned)
    IN  IF start = 0 THEN cleaned ELSE SubSeq(cleaned, 1, start + 1)

\* s.split(char)
RECURSIVE SplitOn(_, _)
SplitOn(s, char) ==
    IF \E i \in 1..Len(s) : s[i] = char
    THEN LET first == CHOOSE i \in 1..Len(s) : s[i] = char /\ \A h \in 1..(i - 1) : s[h] # char
         IN  <<SubSeq(s, 1, first - 1)>> \o SplitOn(SubSeq(s, first + 1, Len(s)), char)
    ELSE <<s>>

\* part_000:182   cleaned.split(':').map(p => parseInt(p) || 0)
NumbersOf(texts) == [i \in 1..Len(texts) |-> OrElse(parseInt(texts[i]), 0)]

\* part_000:184-190
SetTime(date, parts) ==
    IF Len(parts) >= 3
    THEN AddSeconds(AddSeconds(AddSeconds(date, parts[1], 3600), parts[2], 60), parts[3], 1)
    ELSE IF Len(parts) = 2
    THEN AddSeconds(AddSeconds(date, parts[1], 3600), parts[2], 60)
    ELSE date

\* part_000:169-193
parseTime(timeStr, date) ==
    IF timeStr = <<>> \/ date.kind = "null" THEN date
    ELSE SetTime(date, NumbersOf(SplitOn(ReplaceAll(One({".", ":", MiddleDot}),
                                                    StripMilliseconds(trim(timeStr)), <<":">>),
                                         ":")))

-----------------------------------------------------------------------------
(* The row parser: part_000 (utils/tradeParser)                              *)

\* \w+\d{2}
Tenor == Plus(WordChar) \o Rep(Digit, 2, 2)

Dash == {"-", EnDash}

\* part_000:9-27, every pattern under the flag i
STRUCTURE_PATTERNS ==
    << LitI(<<"S", "O", "3">>) \o Plus(Space) \o Tenor \o One(Dash) \o Tenor \o Plus(Space)
           \o LitI(<<"C", "a", "l", "e", "n", "d", "a", "r">>),
       LitI(<<"S", "O", "3">>) \o Plus(Space) \o Tenor \o Plus(Space) \o LitI(<<"3", "m", "o">>) \o Plus(Space)
           \o LitI(<<"B", "u", "t", "t", "e", "r", "f", "l", "y">>),
       LitI(<<"S", "O", "3">>) \o Plus(Space) \o Tenor \o Plus(Space) \o LitI(<<"3", "m", "o">>) \o Plus(Space)
           \o LitI(<<"C", "o", "n", "d", "o", "r">>),
       LitI(<<"S", "O", "N">>) \o Plus(Space) \o Tenor \o Plus(Space) \o LitI(<<"F", "l", "y">>) \o Plus(Space)
           \o LitI(<<"C", "o", "n", "d", "o", "r">>),
       LitI(<<"S", "O", "N">>) \o Plus(Space) \o Tenor \o Plus(Space) \o Lit(<<"3">>) \o Plus(Space)
           \o LitI(<<"D">>) \o Opt({"-"}) \o LitI(<<"F", "l", "y">>),
       LitI(<<"S", "O", "N">>) \o Plus(Space) \o Tenor \o Plus(Space) \o Lit(<<"3">>) \o Plus(Space)
           \o LitI(<<"F", "l", "y">>),
       LitI(<<"S", "O", "N">>) \o Plus(Space) \o Tenor \o Plus(Space) \o LitI(<<"D">>) \o Opt({"-"})
           \o LitI(<<"F", "l", "y">>),
       LitI(<<"S">>) \o One({"O", "o", "A", "a"}) \o Lit(<<"3">>) \o Plus(Space) \o Tenor
           \o NotAhead(Star(Space) \o One(Dash) \o Tenor),
       LitI(<<"E", "R", "3">>) \o Plus(Space) \o Tenor >>

\* part_000:30, the alternatives of the group, each followed by \*?$ ; flag i
EXCHANGE_PATTERN ==
    LET tail == Opt({"*"}) \o AtEnd
    IN  { LitI(<<"I", "C", "E">>) \o Opt({"_", "-"}) \o Star(Letter) \o tail,
          LitI(<<"C", "M", "E">>) \o Opt({"_", "-"}) \o Star(Letter) \o tail,
          LitI(<<"N", "Y", "M", "E", "X">>) \o tail,
          LitI(<<"C", "O", "M", "E", "X">>) \o tail,
          LitI(<<"A", "S", "E">>) \o tail,
          LitI(<<"E", "U", "R", "E", "X">>) \o tail,
          Rep(Letter, 2, 6) \o One({"_", "-"}) \o Plus(Letter) \o tail }

\* part_000:33-42; the last two without the flag i
DATE_PATTERNS ==
    { Plus(WordChar) \o LitI(<<"d", "a", "y">>) \o Opt({","}) \o Plus(Space) \o Rep(Digit, 1, 2)
          \o Plus(Space) \o Plus(WordChar) \o Opt({","}) \o Plus(Space) \o Rep(Digit, 4, 4),
      Rep(Digit, 1, 2) \o Plus(Space) \o Plus(WordChar) \o Plus(Space) \o Rep(Digit, 4, 4),
      Rep(Digit, 4, 4) \o One({"-"}) \o Rep(Digit, 2, 2) \o One({"-"}) \o Rep(Digit, 2, 2),
      Rep(Digit, 1, 2) \o One({"/", "-"}) \o Rep(Digit, 1, 2) \o One({"/", "-"})
          \o Rep(Digit, 2, 4) }

TimeSeparator == {".", ":", MiddleDot}

\* part_000:45-49; the optional group that ends the first pattern matches the empty string
TIME_PATTERNS ==
    { Rep(Digit, 1, 2) \o One(TimeSeparator) \o Rep(Digit, 2, 2) \o One(TimeSeparator)
          \o Rep(Digit, 2, 2),
      Rep(Digit, 1, 2) \o One({":"}) \o Rep(Digit, 2, 2) \o One({":"}) \o Rep(Digit, 2, 2),
      Rep(Digit, 1, 2) \o One({":"}) \o Rep(Digit, 2, 2) }

\* part_000:52-53   /^(B|BUY|BOUGHT|LONG)$/i and /^(S|SELL|SOLD|SHORT)$/i
BUY_PATTERNS(s) == toUpperCase(s) \in { <<"B">>, <<"B", "U", "Y">>, <<"B", "O", "U", "G", "H", "T">>, <<"L", "O", "N", "G">> }

SELL_PATTERNS(s) == toUpperCase(s) \in { <<"S">>, <<"S", "E", "L", "L">>, <<"S", "O", "L", "D">>, <<"S", "H", "O", "R", "T">> }

\* part_000:62   /^-?\d+\.?\d*$/
NumberPattern == Opt({"-"}) \o Plus(Digit) \o Opt({"."}) \o Star(Digit) \o AtEnd

\* part_000:84   /^\d{1,2}[-\/.]\d{1,2}[-\/.]\d{2,4}$/
ShortDatePattern == EuroDatePattern

\* part_000:92   /^\d{1,2}[.:]?\d{2}[.:]?\d{2}/
ShortTimePattern ==
    Rep(Digit, 1, 2) \o Opt({".", ":"}) \o Rep(Digit, 2, 2) \o Opt({".", ":"}) \o Rep(Digit, 2, 2)

\* part_000:100   /^(SO3|SON|SA3|ER3|Calendar|Butterfly|Condor|Fly|D-?Fly)/i
StructurePartPattern ==
    { LitI(<<"S", "O", "3">>), LitI(<<"S", "O", "N">>), LitI(<<"S", "A", "3">>), LitI(<<"E", "R", "3">>), LitI(<<"C", "a", "l", "e", "n", "d", "a", "r">>),
      LitI(<<"B", "u", "t", "t", "e", "r", "f", "l", "y">>), LitI(<<"C", "o", "n", "d", "o", "r">>), LitI(<<"F", "l", "y">>),
      LitI(<<"D">>) \o Opt({"-"}) \o LitI(<<"F", "l", "y">>) }

\* part_000:58-105
detectFieldType(value) ==
    LET trimmed == trim(value)
        num == parseFloat(trimmed)
    IN  IF TestAtStart(NumberPattern, trimmed)
        THEN IF num.isInteger /\ num.value > 0 /\ num.value < 1000 * 1000
             THEN [type |-> "quantity", value |-> num.value \div 1000, text |-> trimmed]
             ELSE [type |-> "price", value |-> num.value, text |-> trimmed]
        ELSE IF BUY_PATTERNS(trimmed) THEN [type |-> "side", value |-> 0, text |-> <<"B", "U", "Y">>]
        ELSE IF SELL_PATTERNS(trimmed) THEN [type |-> "side", value |-> 0, text |-> <<"S", "E", "L", "L">>]
        ELSE IF \E pattern \in EXCHANGE_PATTERN : TestAtStart(pattern, trimmed)
        THEN [type |-> "exchange", value |-> 0, text |-> RemoveFirst(trimmed, "*")]
        ELSE IF \E k \in 1..Len(STRUCTURE_PATTERNS) : Test(STRUCTURE_PATTERNS[k], trimmed)
        THEN [type |-> "structure", value |-> 0, text |-> trimmed]
        ELSE IF \/ TestAtStart(ShortDatePattern, trimmed)
                \/ \E pattern \in DATE_PATTERNS : Test(pattern, trimmed)
        THEN [type |-> "date", value |-> 0, text |-> trimmed]
        ELSE IF \/ TestAtStart(ShortTimePattern, trimmed)
                \/ \E pattern \in TIME_PATTERNS : Test(pattern, trimmed)
        THEN [type |-> "time", value |-> 0, text |-> trimmed]
        ELSE IF \E pattern \in StructurePartPattern : TestAtStart(pattern, trimmed)
        THEN [type |-> "structure_part", value |-> 0, text |-> trimmed]
        ELSE [type |-> "unknown", value |-> 0, text |-> trimmed]


\* part_000:231   replace(/(\w{3}\d{2})\s*[–—-]\s*(\w{3}\d{2})/g, '$1-$2')
TenorDashPattern ==
    Rep(WordChar, 3, 3) \o Rep(Digit, 2, 2) \o Star(Space) \o One({EnDash, EmDash, "-"})
        \o Star(Space) \o Rep(WordChar, 3, 3) \o Rep(Digit, 2, 2)

RECURSIVE ReplaceTenorDashFrom(_, _)
ReplaceTenorDashFrom(s, i) ==
    IF i > Len(s) THEN <<>>
    ELSE LET end == MatchEnd(TenorDashPattern, s, i)
         IN  IF end = 0 THEN <<s[i]>> \o ReplaceTenorDashFrom(s, i + 1)
             ELSE SubSeq(s, i, i + 4) \o <<"-">> \o SubSeq(s, end - 5, end - 1)
                      \o ReplaceTenorDashFrom(s, end)

\* [Ff]ly under the flag i, and a word whose first letter alone is of either case
FlyI == LitI(<<"f", "l", "y">>)

Capital(first, rest) == One({LowerChar(first), UpperChar(first)}) \o Lit(rest)

\* as normalizeStructureName, with the text of the second replacement in the first
normalizeStructureName_DFlyAs3DFly(structure) ==
    LET n0 == trim(structure)
        n1 == ReplaceAll(LitI(<<"D">>) \o Opt({"-"} \cup Space) \o FlyI, n0, <<"3", " ", "D", "-", "F", "l", "y">>)
        n2 == ReplaceAll(Lit(<<"3">>) \o Star(Space) \o LitI(<<"D">>) \o Opt({"-"} \cup Space) \o FlyI,
                         n1, <<"3", " ", "D", "-", "F", "l", "y">>)
        n3 == ReplaceAll(Lit(<<"3">>) \o Plus(Space) \o FlyI
                             \o NotAhead(Star(Space) \o LitI(<<"C", "o", "n", "d", "o", "r">>))
                             \o NotAhead(Star(Space) \o LitI(<<"D">>)),
                         n2, <<"3", " ", "F", "l", "y">>)
        n4 == ReplaceAll(FlyI \o Star(Space) \o LitI(<<"c", "o", "n", "d", "o", "r">>), n3, <<"F", "l", "y", " ", "C", "o", "n", "d", "o", "r">>)
        n5 == ReplaceAll(LitI(<<"3", "m", "o">>) \o Star(Space) \o LitI(<<"b", "u", "t", "t", "e", "r", "f", "l", "y">>), n4, <<"3", "m", "o", " ", "B", "u", "t", "t", "e", "r", "f", "l", "y">>)
        n6 == ReplaceAll(LitI(<<"3", "m", "o">>) \o Star(Space) \o LitI(<<"c", "o", "n", "d", "o", "r">>), n5, <<"3", "m", "o", " ", "C", "o", "n", "d", "o", "r">>)
        n7 == ReplaceAll(Capital("c", <<"a", "l", "e", "n", "d", "a", "r">>), n6, <<"C", "a", "l", "e", "n", "d", "a", "r">>)
        n8 == ReplaceAll(Capital("b", <<"u", "t", "t", "e", "r", "f", "l", "y">>), n7, <<"B", "u", "t", "t", "e", "r", "f", "l", "y">>)
        n9 == ReplaceAll(Capital("c", <<"o", "n", "d", "o", "r">>), n8, <<"C", "o", "n", "d", "o", "r">>)
    IN  IF structure = <<>> THEN <<>> ELSE ReplaceTenorDashFrom(n9, 1)

\* part_000:199-234
normalizeStructureName(structure) ==
    LET n0 == trim(structure)
        n1 == ReplaceAll(LitI(<<"D">>) \o Opt({"-"} \cup Space) \o FlyI, n0, <<"D", "-", "F", "l", "y">>)
        n2 == ReplaceAll(Lit(<<"3">>) \o Star(Space) \o LitI(<<"D">>) \o Opt({"-"} \cup Space) \o FlyI,
                         n1, <<"3", " ", "D", "-", "F", "l", "y">>)
        n3 == ReplaceAll(Lit(<<"3">>) \o Plus(Space) \o FlyI
                             \o NotAhead(Star(Space) \o LitI(<<"C", "o", "n", "d", "o", "r">>))
                             \o NotAhead(Star(Space) \o LitI(<<"D">>)),
                         n2, <<"3", " ", "F", "l", "y">>)
        n4 == ReplaceAll(FlyI \o Star(Space) \o LitI(<<"c", "o", "n", "d", "o", "r">>), n3, <<"F", "l", "y", " ", "C", "o", "n", "d", "o", "r">>)
        n5 == ReplaceAll(LitI(<<"3", "m", "o">>) \o Star(Space) \o LitI(<<"b", "u", "t", "t", "e", "r", "f", "l", "y">>), n4, <<"3", "m", "o", " ", "B", "u", "t", "t", "e", "r", "f", "l", "y">>)
        n6 == ReplaceAll(LitI(<<"3", "m", "o">>) \o Star(Space) \o LitI(<<"c", "o", "n", "d", "o", "r">>), n5, <<"3", "m", "o", " ", "C", "o", "n", "d", "o", "r">>)
        n7 == ReplaceAll(Capital("c", <<"a", "l", "e", "n", "d", "a", "r">>), n6, <<"C", "a", "l", "e", "n", "d", "a", "r">>)
        n8 == ReplaceAll(Capital("b", <<"u", "t", "t", "e", "r", "f", "l", "y">>), n7, <<"B", "u", "t", "t", "e", "r", "f", "l", "y">>)
        n9 == ReplaceAll(Capital("c", <<"o", "n", "d", "o", "r">>), n8, <<"C", "o", "n", "d", "o", "r">>)
    IN  IF structure = <<>> THEN <<>> ELSE ReplaceTenorDashFrom(n9, 1)

\* the value no row gives: parseTradeRow returns null
NoTrade == [kind |-> "null"]

\* an exception of the given message leaves the call
Thrown(message) == [kind |-> "throw", message |-> message]

\* parsedDate.toISOString() of an Invalid Date
RangeError == Thrown(<<"I", "n", "v", "a", "l", "i", "d", " ", "t", "i", "m", "e", " ", "v", "a", "l", "u", "e">>)

\* the object a row parser or createManualTrade returns; id is
\* `${timestamp}-${random}`, and dateStr follows from timestamp
Trade(timestamp, random, time, exchange, structure, originalStructure, side, quantity, price) ==
    [kind |-> "trade", id |-> <<timestamp, random>>, time |-> time, exchange |-> exchange,
     structure |-> structure, originalStructure |-> originalStructure, side |-> side,
     quantity |-> quantity, price |-> price, timestamp |-> timestamp]

\* part_000:358-381
PositionalTrade(parts, parsedDate, normalizedSide, quantity, price, random) ==
    IF normalizedSide = <<>> THEN NoTrade
    ELSE IF quantity = 0 THEN NoTrade
    ELSE IF parsedDate.kind = "invalid" THEN RangeError
    ELSE Trade(parsedDate.time, random, parts[2], trim(RemoveFirst(parts[3], "*")),
               normalizeStructureName(parts[4]), parts[4], normalizedSide, quantity, price)

\* part_000:359
NormalizedSide(side) ==
    IF BUY_PATTERNS(side) THEN <<"B", "U", "Y">> ELSE IF SELL_PATTERNS(side) THEN <<"S", "E", "L", "L">> ELSE <<>>

\* part_000:348-381; parts is [dateStr, timeStr, exchange, structure, side, qtyStr, priceStr]
parseTradeRowPositional(parts, random) ==
    IF Len(parts) < 7 THEN NoTrade
    ELSE IF parseDate(parts[1]).kind = "null" THEN NoTrade
    ELSE PositionalTrade(parts, parseTime(parts[2], parseDate(parts[1])),
                         NormalizedSide(parts[5]), OrElse(parseInt(parts[6]), 0),
                         OrElse(parseFloat(parts[7]), 0), random)

\* row.split(separator).map(p => p.trim()).filter(p => p)
Parts(row, separator) == NonEmpty(TrimAll(Split(separator, row)))

\* part_000:243-253
RowParts(row) ==
    LET byTabs == Parts(row, One({"\t"}))
        bySpaces == Parts(row, Rep(Space, 2, Unbounded))
        byCommas == Parts(row, One({","}))
    IN  IF Len(byTabs) >= 3 THEN byTabs
        ELSE IF Len(bySpaces) >= 3 THEN bySpaces
        ELSE byCommas

\* the fields of a type, in the order of the row
FieldsOf(detected, type) == SelectSeq(detected, LAMBDA field : field.type = type)

\* array.join(' ')
RECURSIVE Join(_)
Join(texts) ==
    IF texts = <<>> THEN <<>>
    ELSE IF Len(texts) = 1 THEN texts[1]
    ELSE texts[1] \o <<" ">> \o Join(Tail(texts))

\* the value of the first field of a type, <<>> for none
FirstText(detected, type) ==
    IF FieldsOf(detected, type) = <<>> THEN <<>> ELSE FieldsOf(detected, type)[1].text

\* part_000:285-290 and 304-307: the last structure, else the structure parts joined
StructureOf(structures, structureParts) ==
    IF structures # <<>> THEN structures[Len(structures)].text
    ELSE Join([i \in 1..Len(structureParts) |-> structureParts[i].text])

\* part_000:261-307: the object `trade` after the loop over the detected fields.  The
\* first date, time, exchange, side and quantity of a row are kept (their values are
\* never falsy), the last structure and the last price; <<>> and 0 stand for null
DetectedTrade(detected) ==
    [date |-> FirstText(detected, "date"),
     time |-> FirstText(detected, "time"),
     exchange |-> FirstText(detected, "exchange"),
     structure |-> StructureOf(FieldsOf(detected, "structure"),
                               FieldsOf(detected, "structure_part")),
     side |-> FirstText(detected, "side"),
     quantity |-> IF FieldsOf(detected, "quantity") = <<>> THEN 0
                  ELSE FieldsOf(detected, "quantity")[1].value,
     price |-> IF FieldsOf(detected, "price") = <<>> THEN 0
               ELSE FieldsOf(detected, "price")[Len(FieldsOf(detected, "price"))].value]

\* part_000:322-342
ReturnedTrade(trade, parsedDate, random) ==
    IF parsedDate.kind = "invalid" THEN RangeError
    ELSE Trade(parsedDate.time, random, trade.time,
               IF trade.exchange = <<>> THEN <<"U", "N", "K", "N", "O", "W", "N">> ELSE trade.exchange,
               normalizeStructureName(trade.structure), trade.structure, trade.side,
               IF trade.quantity <= 0 THEN 1 ELSE trade.quantity, trade.price)

\* part_000:309-320
ValidatedTrade(trade, parts, random) ==
    IF trade.structure = <<>> \/ trade.side = <<>> THEN parseTradeRowPositional(parts, random)
    ELSE IF parseDate(trade.date).kind = "null" THEN NoTrade
    ELSE ReturnedTrade(trade, parseTime(trade.time, parseDate(trade.date)), random)

\* part_000:255-258
DetectedRow(parts, random) ==
    IF Len(parts) < 4 THEN NoTrade
    ELSE ValidatedTrade(DetectedTrade([i \in 1..Len(parts) |-> detectFieldType(parts[i])]),
                        parts, random)

\* part_000:239-343
parseTradeRow(row, random) ==
    IF trim(row) = <<>> THEN NoTrade ELSE DetectedRow(RowParts(row), random)


-----------------------------------------------------------------------------
(* parseTrades: part_000:386-410 *)

\* the lines a pasted text is made of: a fill of the documented layout, a fill of an
\* earlier day, a fill with an integer price, a fill of an unknown structure with a
\* negative quantity, a fill with an hour past the range of Date, two lines that are
\* no fill (one of more than 50 characters), a blank line, and the fills that close
\* the first two
Rows ==
    { <<"1", "6", "-", "6", "-", "2", "5", "\t", "1", "6", ".", "3", "8", ".", "2", "5", "\t", "I", "C", "E", "_", "L", "\t", "S", "O", "N", " ", "S", "e", "p", "2", "6", " ", "D", "-", "F", "l", "y", "\t", "B", "\t", "1", "\t", "-", "0", ".", "0", "2", "5">>,
      <<"1", "5", "-", "6", "-", "2", "5", "\t", "1", "0", ":", "0", "0", ":", "0", "0", "\t", "C", "M", "E", "\t", "S", "O", "3", " ", "M", "a", "r", "2", "6", "-", "J", "u", "n", "2", "6", " ", "C", "a", "l", "e", "n", "d", "a", "r", "\t", "S", "E", "L", "L", "\t", "3", "\t", "9", "9", ".", "5">>,
      <<"1", "7", "-", "6", "-", "2", "5", "\t", "0", "9", ":", "3", "0", ":", "0", "0", "\t", "I", "C", "E", "_", "L", "\t", "S", "O", "N", " ", "S", "e", "p", "2", "6", " ", "D", "-", "F", "l", "y", "\t", "S", "\t", "2", "\t", "5">>,
      <<"1", "6", "-", "6", "-", "2", "5", "\t", "1", "0", ":", "0", "0", ":", "0", "0", "\t", "I", "C", "E", "_", "L", "\t", "X", "Y", "Z", " ", "S", "p", "r", "e", "a", "d", "\t", "B", "\t", "-", "5", "\t", "1", ".", "5">>,
      <<"1", "6", "-", "6", "-", "2", "5", "\t", "9", "9", "9", "9", "9", "9", "9", "9", "9", "9", "9", ".", "0", "0", ".", "0", "0", "\t", "I", "C", "E", "_", "L", "\t", "S", "O", "N", " ", "S", "e", "p", "2", "6", " ", "D", "-", "F", "l", "y", "\t", "B", "\t", "1", "\t", "0", ".", "5">>,
      <<"g", "a", "r", "b", "a", "g", "e">>,
      <<"t", "h", "i", "s", " ", "l", "i", "n", "e", " ", "i", "s", " ", "n", "o", " ", "f", "i", "l", "l", " ", "a", "n", "d", " ", "i", "t", " ", "i", "s", " ", "l", "o", "n", "g", "e", "r", " ", "t", "h", "a", "n", " ", "f", "i", "f", "t", "y", " ", "c", "h", "a", "r", "a", "c", "t", "e", "r", "s">>,
      <<" ">>,
      <<"1", "6", "-", "6", "-", "2", "5", "\t", "1", "1", ":", "0", "0", ":", "0", "0", "\t", "I", "C", "E", "_", "L", "\t", "S", "O", "N", " ", "S", "e", "p", "2", "6", " ", "D", "-", "F", "l", "y", "\t", "S", "\t", "1", "\t", "-", "0", ".", "0", "2">>,
      <<"1", "5", "-", "6", "-", "2", "5", "\t", "1", "1", ":", "0", "0", ":", "0", "0", "\t", "C", "M", "E", "\t", "S", "O", "3", " ", "M", "a", "r", "2", "6", "-", "J", "u", "n", "2", "6", " ", "C", "a", "l", "e", "n", "d", "a", "r", "\t", "B", "U", "Y", "\t", "3", "\t", "9", "9", ".", "5">> }

MaxLines == 3

\* Math.random().toString(36).substring(2, 11)
Randoms == {1, 2}

\* lines.join('\n')
RECURSIVE JoinLines(_)
JoinLines(lines) ==
    IF lines = <<>> THEN <<>>
    ELSE IF Len(lines) = 1 THEN lines[1]
    ELSE lines[1] \o <<"\n">> \o JoinLines(Tail(lines))

\* the empty text and the texts of 1..MaxLines lines
Inputs ==
    {<<>>} \cup {JoinLines(lines) : lines \in UNION {[1..n -> Rows] : n \in 1..MaxLines}}

\* the rows of the inputs, each parsed once
ParsedRows == [row \in Rows, random \in Randoms |-> parseTradeRow(row, random)]

\* s.substring(0, n)
Substring(s, n) == SubSeq(s, 1, IF Len(s) < n THEN Len(s) ELSE n)

\* trades.sort((a, b) => a.timestamp - b.timestamp): the sort is stable
RECURSIVE InsertTrade(_, _)
InsertTrade(sorted, trade) ==
    IF sorted = <<>> THEN <<trade>>
    ELSE IF sorted[Len(sorted)].timestamp - trade.timestamp <= 0 THEN Append(sorted, trade)
    ELSE Append(InsertTrade(SubSeq(sorted, 1, Len(sorted) - 1), trade), sorted[Len(sorted)])

\* the list as it was filled, in the order of the lines
SortTrades_EntryOrder(list) == list

RECURSIVE SortTrades(_)
SortTrades(list) ==
    IF list = <<>> THEN <<>>
    ELSE InsertTrade(SortTrades(SubSeq(list, 1, Len(list) - 1)), list[Len(list)])

\* part_000:399, 402
ErrorEntry(i, line, reason) ==
    [line |-> i + 1, content |-> Substring(line, 50), reason |-> reason]

ParseIdle == UNCHANGED <<customStructures, localStorage, TICK_VALUE, TICK_SIZE, RT_COST_PER_LOT,
                         lookup, trades, structureName, fifo, settingsItem, settingsPanel,
                         builtIn, session, input, tradeLog, manualForm, parseStatus, pnlStats,
                         ViewVars>>

\* part_000:387-391: the call local variables after the split of the text
EnterParse(call, text) ==
    IF text = <<>>
    THEN [call EXCEPT !.pc = "done"]
    ELSE [call EXCEPT !.pc = "for",
                      !.lines = SelectSeq(SplitOn(text, "\n"), LAMBDA line : trim(line) # <<>>)]

\* part_000:387-391
parseTradesEnter ==
    /\ parse.pc = "call"
    /\ parse' = EnterParse(parse, input)
    /\ ParseIdle

\* part_000:393-404 without the catch: the exception leaves parseTrades
parseTradesLine_NoCatch(random) ==
    /\ parse.pc = "for"
    /\ parse.i < Len(parse.lines)
    /\ LET line == parse.lines[parse.i + 1]
           trade == ParsedRows[line, random]
       IN  parse' = IF trade.kind = "trade"
                    THEN [parse EXCEPT !.i = @ + 1, !.trades = Append(@, trade)]
                    ELSE IF trade.kind = "null"
                    THEN [parse EXCEPT !.i = @ + 1,
                              !.errors = Append(@, ErrorEntry(parse.i, line,
                                                              <<"C", "o", "u", "l", "d", " ", "n", "o", "t", " ", "p", "a", "r", "s", "e">>))]
                    ELSE [parse EXCEPT !.pc = "thrown"]
    /\ ParseIdle

\* part_000:393-404: the call after one iteration of the loop on a line and its row
LineParsed(call, line, trade) ==
    IF trade.kind = "trade"
    THEN [call EXCEPT !.i = @ + 1, !.trades = Append(@, trade)]
    ELSE IF trade.kind = "null"
    THEN [call EXCEPT !.i = @ + 1,
                      !.errors = Append(@, ErrorEntry(call.i, line, <<"C", "o", "u", "l", "d", " ", "n", "o", "t", " ", "p", "a", "r", "s", "e">>))]
    ELSE [call EXCEPT !.i = @ + 1,
                      !.errors = Append(@, ErrorEntry(call.i, line, trade.message))]

\* part_000:393-404: one iteration of the loop, with its try and catch
parseTradesLine(random) ==
    /\ parse.pc = "for"
    /\ parse.i < Len(parse.lines)
    /\ parse' = LineParsed(parse, parse.lines[parse.i + 1],
                           ParsedRows[parse.lines[parse.i + 1], random])
    /\ ParseIdle

\* part_000:406-409
ReturnParse(call) == [call EXCEPT !.pc = "done", !.trades = SortTrades(@)]

parseTradesReturn ==
    /\ parse.pc = "for"
    /\ parse.i = Len(parse.lines)
    /\ parse' = ReturnParse(parse)
    /\ ParseIdle

\* part_000:386-410: the whole call, randoms[i] drawn for the row of line i
RECURSIVE RunParse(_, _)
RunParse(call, randoms) ==
    IF call.pc = "done" THEN call
    ELSE IF call.i = Len(call.lines) THEN ReturnParse(call)
    ELSE RunParse(LineParsed(call, call.lines[call.i + 1],
                             ParsedRows[call.lines[call.i + 1], randoms[call.i + 1]]),
                  randoms)

parseTrades(text, randoms) == RunParse(EnterParse([NoCall EXCEPT !.pc = "call"], text), randoms)

NextParse ==
    \/ parseTradesEnter
    \/ \E random \in Randoms : parseTradesLine(random)
    \/ parseTradesReturn

\* parseTrades is called on a text
InitParse ==
    /\ MatcherInit
    /\ SettingsInit
    /\ input \in Inputs
    /\ parse = [NoCall EXCEPT !.pc = "call"]
    /\ EntryInit
    /\ pnlStats = <<>>
    /\ normalizations = <<>>
    /\ structuresData = <<>>
    /\ analytics = <<>>
    /\ selectedStructure = <<>>

SpecParse == InitParse /\ [][NextParse]_vars


-----------------------------------------------------------------------------
(* Properties of the parser *)

\* the positions at which a line of a text begins
LineStarts(text) == {1} \cup {k + 1 : k \in {h \in 1..Len(text) : text[h] = "\n"}}

\* the line of a text that begins at a position
LineAt(text, start) ==
    SubSeq(text, start,
           (CHOOSE end \in start..(Len(text) + 1) :
               /\ end = Len(text) + 1 \/ text[end] = "\n"
               /\ \A k \in start..(end - 1) : text[k] # "\n") - 1)

\* a line with a character that is no white space
NonBlank(line) == \E k \in 1..Len(line) : ~IsWhiteSpace(line[k])

NonBlankLineCount(text) ==
    Cardinality({start \in LineStarts(text) : NonBlank(LineAt(text, start))})

\* every line the loop has passed left exactly one entry, the call that has entered
\* the loop goes on until it returns, and it returns one entry for each non-blank line
C13_OneEntryPerLine ==
    /\ parse.pc = "for" => Len(parse.trades) + Len(parse.errors) = parse.i
    /\ parse.pc \notin {"call", "done"} => ENABLED NextParse
    /\ parse.pc = "done" =>
          Len(parse.trades) + Len(parse.errors) = NonBlankLineCount(input)

\* a step of the loop adds one trade or one error and goes to the next line
C13_LineStep ==
    (parse.pc = "for" /\ parse'.pc = "for") =>
        /\ parse'.i = parse.i + 1
        /\ \/ Len(parse'.trades) = Len(parse.trades) + 1 /\ parse'.errors = parse.errors
           \/ Len(parse'.errors) = Len(parse.errors) + 1 /\ parse'.trades = parse.trades

\* C13: parseTrades never aborts a batch: every non-blank line yields exactly one
\* entry, a Trade in trades or an error in errors, so that trades.length +
\* errors.length is the number of non-blank lines, and a line that fails or throws
\* does not prevent the lines after it from being parsed
C13_BatchNeverAborts == [](C13_OneEntryPerLine) /\ [][C13_LineStep]_vars

\* a text of three lines whose first line throws and whose second line is no fill
\* has been parsed: two errors, and the trade of the third line
C13_Witness ==
    /\ parse.pc = "done"
    /\ Len(parse.errors) = 2
    /\ parse.errors[1].reason = <<"I", "n", "v", "a", "l", "i", "d", " ", "t", "i", "m", "e", " ", "v", "a", "l", "u", "e">>
    /\ parse.errors[2].reason = <<"C", "o", "u", "l", "d", " ", "n", "o", "t", " ", "p", "a", "r", "s", "e">>
    /\ Len(parse.trades) = 1
    /\ parse.trades[1].quantity = 3


\* the k-th smallest number of a set
RECURSIVE Nth(_, _)
Nth(numbers, k) ==
    LET least == CHOOSE n \in numbers : \A m \in numbers : n <= m
    IN  IF k = 1 THEN least ELSE Nth(numbers \ {least}, k - 1)

\* the lines of a text, numbered from 1
TextLines(text) ==
    [n \in 1..Cardinality(LineStarts(text)) |-> LineAt(text, Nth(LineStarts(text), n))]

\* the number, within the text, of its k-th non-blank line
NonBlankLineNumber(text, k) ==
    Nth({n \in 1..Len(TextLines(text)) : NonBlank(TextLines(text)[n])}, k)

\* a step of the loop that rejects a line records the number of that line within the
\* text and its first 50 characters
C14_ErrorStep ==
    (parse.pc = "for" /\ Len(parse'.errors) = Len(parse.errors) + 1) =>
        LET error == parse'.errors[Len(parse'.errors)]
            number == NonBlankLineNumber(input, parse.i + 1)
        IN  /\ error.line = number
            /\ error.content = Substring(TextLines(input)[number], 50)

\* C14: for every error entry returned by parseTrades, line is the 1-based line
\* number of the rejected line within the multi-line input text, and content is the
\* first at most 50 characters of that line
C14_ErrorLineAndContent == [][C14_ErrorStep]_vars


\* C15: the trades list returned by parseTrades is in ascending timestamp order for
\* every input, whatever the order of the lines in the input
C15_TradesSortedByTimestamp ==
    parse.pc = "done" =>
        \A i, j \in 1..Len(parse.trades) :
            i < j => parse.trades[i].timestamp <= parse.trades[j].timestamp

\* a text whose first line is a fill of 17 June and whose second line is a fill of
\* 15 June has been parsed: the fill of 15 June is returned first
C15_Witness ==
    /\ parse.pc = "done"
    /\ Len(parse.lines) >= 2
    /\ parse.lines[1] = <<"1", "7", "-", "6", "-", "2", "5", "\t", "0", "9", ":", "3", "0", ":", "0", "0", "\t", "I", "C", "E", "_", "L", "\t", "S", "O", "N", " ", "S", "e", "p", "2", "6", " ", "D", "-", "F", "l", "y", "\t", "S", "\t", "2", "\t", "5">>
    /\ parse.lines[2] = <<"1", "5", "-", "6", "-", "2", "5", "\t", "1", "0", ":", "0", "0", ":", "0", "0", "\t", "C", "M", "E", "\t", "S", "O", "3", " ", "M", "a", "r", "2", "6", "-", "J", "u", "n", "2", "6", " ", "C", "a", "l", "e", "n", "d", "a", "r", "\t", "S", "E", "L", "L", "\t", "3", "\t", "9", "9", ".", "5">>
    /\ Len(parse.trades) >= 2
    /\ parse.trades[1].exchange = <<"C", "M", "E">>
    /\ parse.trades[1].timestamp < parse.trades[2].timestamp


\* C16: every Trade produced by the row parser (by field detection or by the
\* positional fallback) or by createManualTrade has a quantity that is a positive
\* integer
C16_QuantityPositive ==
    /\ \A k \in 1..Len(parse.trades) : parse.trades[k].quantity \in Nat \ {0}
    /\ \A k \in 1..Len(tradeLog) : tradeLog[k].quantity \in Nat \ {0}

\* the columns of a tab-separated line
Columns(line) == SplitOn(line, "\t")

\* \d{1,2}[.:]\d{2}[.:]\d{2} and nothing else: a time of day
TimeColumn ==
    Rep(Digit, 1, 2) \o One({".", ":"}) \o Rep(Digit, 2, 2) \o One({".", ":"})
        \o Rep(Digit, 2, 2) \o AtEnd

\* a line of the layout date, time, exchange, structure, side, quantity, price, each
\* column valid
ValidColumns(line) ==
    LET columns == Columns(line)
    IN  /\ Len(columns) = 7
        /\ TestAtStart(EuroDatePattern, columns[1]) /\ parseDate(columns[1]).kind = "date"
        /\ TestAtStart(TimeColumn, columns[2])
        /\ \E pattern \in EXCHANGE_PATTERN : TestAtStart(pattern, columns[3])
        /\ \E k \in 1..Len(STRUCTURE_PATTERNS) : TestAtStart(STRUCTURE_PATTERNS[k], columns[4])
        /\ BUY_PATTERNS(columns[5]) \/ SELL_PATTERNS(columns[5])
        /\ TestAtStart(Plus(Digit) \o AtEnd, columns[6]) /\ DigitsValue(columns[6]) > 0
        /\ TestAtStart(NumberPattern, columns[7])

\* a step of the loop on a line of valid columns adds the trade of these columns
C17_ColumnsStep ==
    (parse.pc = "for" /\ parse'.pc = "for" /\ ValidColumns(parse.lines[parse.i + 1])) =>
        LET columns == Columns(parse.lines[parse.i + 1])
            trade == parse'.trades[Len(parse'.trades)]
        IN  /\ Len(parse'.trades) = Len(parse.trades) + 1
            /\ trade.exchange = columns[3]
            /\ trade.side = (IF BUY_PATTERNS(columns[5]) THEN <<"B", "U", "Y">> ELSE <<"S", "E", "L", "L">>)
            /\ trade.quantity = DigitsValue(columns[6])
            /\ trade.price = parseFloat(columns[7]).value

\* C17: for any tab-separated line in the 7-column layout date, time, exchange,
\* structure, side, quantity, price whose columns are each valid (recognised
\* structure, side keyword, positive integer quantity, decimal or integer price of
\* either sign), parsing yields a Trade whose exchange, side, quantity and price
\* are the values of the corresponding columns
C17_ColumnsKept == [][C17_ColumnsStep]_vars


-----------------------------------------------------------------------------
(* calculatePnLStats: insightsGenerator.js:849-917, called on the matches of *)
(* a structure's book (App.jsx:38-39), and calculateTickCapture:             *)
(* insightsGenerator.js:928-1029.                                           *)

MaxStatsTrades == 3

SON_Sep26_Fly_Condor == <<"S", "O", "N", " ", "S", "e", "p", "2", "6", " ", "F", "l", "y", " ", "C", "o", "n", "d", "o", "r">>

\* trades of 1 or 2 lots at 0.000, 0.002, 0.005 (one tick) and 0.030 (six ticks)
StatsPrices == {0, 2, 5, 30}

StatsHeaps(n) ==
    {[i \in 1..n |-> [side |-> f[i].side, quantity |-> f[i].quantity,
                      price |-> f[i].price, timestamp |-> i]] :
        f \in [1..n -> [side : Sides, quantity : {1, 2}, price : StatsPrices]]}

Infinity == Ratio(1, 0)

Zero == Ratio(0, 1)

\* insightsGenerator.js:880-882   (m.pnlDollars || 0) > 0, === 0, < 0
IsWin(m) == m.pnlDollars > 0

IsScratch(m) == m.pnlDollars = 0

IsLoss_OrScratch(m) == m.pnlDollars <= 0

IsLoss(m) == m.pnlDollars < 0

RECURSIVE SumNet(_)
SumNet(ms) == IF ms = <<>> THEN 0 ELSE Head(ms).netPnLDollars + SumNet(Tail(ms))

RECURSIVE SumPnl(_)
SumPnl(ms) == IF ms = <<>> THEN 0 ELSE Head(ms).pnl + SumPnl(Tail(ms))

RECURSIVE SumRtCost(_)
SumRtCost(ms) == IF ms = <<>> THEN 0 ELSE Head(ms).rtCost + SumRtCost(Tail(ms))

Abs(n) == IF n < 0 THEN -n ELSE n

\* Math.max(...numbers) and Math.min(...numbers) of a non-empty list
MaxOf(numbers) == CHOOSE n \in {numbers[k] : k \in 1..Len(numbers)} :
                      \A k \in 1..Len(numbers) : numbers[k] <= n

MinOf(numbers) == CHOOSE n \in {numbers[k] : k \in 1..Len(numbers)} :
                      \A k \in 1..Len(numbers) : numbers[k] >= n

\* Math.round(num / den) for den > 0: the nearest integer, a half rounded up
MathRound(num, den) == (2 * num + den) \div (2 * den)

DigitChar(n) == <<"0", "1", "2", "3", "4", "5", "6", "7", "8", "9">>[n + 1]

\* String(n) of an integer
RECURSIVE DecimalDigits(_)
DecimalDigits(n) == IF n < 10 THEN <<DigitChar(n)>> ELSE Append(DecimalDigits(n \div 10), DigitChar(n % 10))

String(n) == IF n < 0 THEN <<"-">> \o DecimalDigits(-n) ELSE DecimalDigits(n)

\* insightsGenerator.js:945-958; openTrade and closeTrade are the objects of the match
getTicksFromMatch(match, tickSize) ==
    IF match.type = "CLOSE_LONG"
    THEN Ratio(match.closeTrade.price - match.openTrade.price, tickSize)
    ELSE IF match.type = "COVER_SHORT"
    THEN Ratio(match.openTrade.price - match.closeTrade.price, tickSize)
    ELSE Ratio(match.pnl, (IF match.matchQty = 0 THEN 1 ELSE match.matchQty) * tickSize)

RoundedTicks(match, tickSize) ==
    MathRound(getTicksFromMatch(match, tickSize).num, getTicksFromMatch(match, tickSize).den)

\* insightsGenerator.js:961-964
WinTick(match, tickSize) ==
    [ticks |-> RoundedTicks(match, tickSize), grossDollars |-> match.pnlDollars]

\* insightsGenerator.js:967-970
LossTick(match, tickSize) ==
    [ticks |-> Abs(RoundedTicks(match, tickSize)), grossDollars |-> Abs(match.pnlDollars)]

\* insightsGenerator.js:981, 1004
TickBucket(ticks) == IF ticks >= 5 THEN <<"5", "+">> ELSE String(ticks)

\* the place of a key among the keys of an object, as Object.entries lists them: the
\* keys 0 to 4 are array indices and come first in ascending order, the others follow
\* in insertion order
BucketRank(key) == IF \E n \in 0..4 : String(n) = key THEN CHOOSE n \in 0..4 : String(n) = key ELSE 5

RECURSIVE InsertBucket(_, _)
InsertBucket(obj, entry) ==
    IF obj = <<>> THEN <<entry>>
    ELSE IF BucketRank(Head(obj).key) > BucketRank(entry.key) THEN <<entry>> \o obj
    ELSE <<Head(obj)>> \o InsertBucket(Tail(obj), entry)

\* insightsGenerator.js:979-988 and 1002-1011: one step of the loop
CountTick(byTicks, tick) ==
    IF HasOwn(byTicks, TickBucket(tick.ticks))
    THEN [i \in 1..Len(byTicks) |->
             IF byTicks[i].key = TickBucket(tick.ticks)
             THEN [byTicks[i] EXCEPT !.value = [count |-> @.count + 1,
                                               totalGrossPnL |-> @.totalGrossPnL + tick.grossDollars]]
             ELSE byTicks[i]]
    ELSE InsertBucket(byTicks, [key |-> TickBucket(tick.ticks),
                                value |-> [count |-> 1, totalGrossPnL |-> tick.grossDollars]])

RECURSIVE GroupByTicks(_, _)
GroupByTicks(ticks, byTicks) ==
    IF ticks = <<>> THEN byTicks ELSE GroupByTicks(Tail(ticks), CountTick(byTicks, Head(ticks)))

RECURSIVE SumTicks(_)
SumTicks(ticks) == IF ticks = <<>> THEN 0 ELSE Head(ticks).ticks + SumTicks(Tail(ticks))

\* insightsGenerator.js:991-999
Distribution(winsByTicks, wins) ==
    [i \in 1..Len(winsByTicks) |->
        [key |-> winsByTicks[i].key,
         value |-> [count |-> winsByTicks[i].value.count,
                    percent |-> Ratio(winsByTicks[i].value.count * 100, wins),
                    totalGrossPnL |-> winsByTicks[i].value.totalGrossPnL,
                    avgGrossPnL |-> Ratio(winsByTicks[i].value.totalGrossPnL,
                                          winsByTicks[i].value.count)]]]

\* insightsGenerator.js:1014-1021   sort by percent, the larger first, and stable
RECURSIVE InsertByPercent(_, _)
InsertByPercent(sorted, entry) ==
    IF sorted = <<>> THEN <<entry>>
    ELSE IF Head(sorted).count < entry.count THEN <<entry>> \o sorted
    ELSE <<Head(sorted)>> \o InsertByPercent(Tail(sorted), entry)

RECURSIVE SortByPercent(_, _)
SortByPercent(distribution, sorted) ==
    IF distribution = <<>> THEN sorted
    ELSE SortByPercent(Tail(distribution),
                       InsertByPercent(sorted, [ticks |-> Head(distribution).key,
                                                count |-> Head(distribution).value.count,
                                                percent |-> Head(distribution).value.percent]))

Top3(distribution) == SubSeq(SortByPercent(distribution, <<>>), 1, Min(3, Len(distribution)))

\* insightsGenerator.js:972-1028, the lists winTicks and lossTicks given
TickCaptureOf(winTicks, lossTicks, winsByTicks) ==
    [avgTicksWon |-> IF Len(winTicks) > 0 THEN Ratio(SumTicks(winTicks), Len(winTicks)) ELSE Zero,
     avgTicksLost |-> IF Len(lossTicks) > 0 THEN Ratio(SumTicks(lossTicks), Len(lossTicks)) ELSE Zero,
     distribution |-> Distribution(winsByTicks, Len(winTicks)),
     winsByTicks |-> winsByTicks,
     lossesByTicks |-> GroupByTicks(lossTicks, <<>>),
     top3 |-> Top3(Distribution(winsByTicks, Len(winTicks)))]

WinTicks(wins, tickSize) == [k \in 1..Len(wins) |-> WinTick(wins[k], tickSize)]

\* insightsGenerator.js:928-1029
calculateTickCapture(wins, losses, tickSize) ==
    IF Len(wins) = 0 /\ Len(losses) = 0
    THEN [avgTicksWon |-> Zero, avgTicksLost |-> Zero, distribution |-> <<>>,
          winsByTicks |-> <<>>, lossesByTicks |-> <<>>]
    ELSE TickCaptureOf(WinTicks(wins, tickSize),
                       [k \in 1..Len(losses) |-> LossTick(losses[k], tickSize)],
                       GroupByTicks(WinTicks(wins, tickSize), <<>>))

\* insightsGenerator.js:891-916, the lists wins, scratches and losses given.
\* 1.65 is 330 half-cents; Math.round(x / 330) is (2x + 330) div 660 for x >= 0
StatsOf(matches, wins, scratches, losses) ==
    [totalTrades |-> Len(matches),
     winningTrades |-> Len(wins),
     losingTrades |-> Len(losses),
     scratchTrades |-> Len(scratches),
     winRate |-> IF Len(wins) + Len(losses) > 0
                 THEN Ratio(Len(wins) * 100, Len(wins) + Len(losses)) ELSE Zero,
     scratchRate |-> IF Len(matches) > 0
                     THEN Ratio(Len(scratches) * 100, Len(matches)) ELSE Zero,
     avgWin |-> IF Len(wins) > 0 THEN Ratio(SumPnl(wins), Len(wins)) ELSE Zero,
     avgLoss |-> IF Len(losses) > 0 THEN Ratio(Abs(SumPnl(losses)), Len(losses)) ELSE Zero,
     avgWinDollars |-> IF Len(wins) > 0 THEN Ratio(SumNet(wins), Len(wins)) ELSE Zero,
     avgLossDollars |-> IF Len(losses) > 0
                        THEN Ratio(Abs(SumNet(losses)), Len(losses)) ELSE Zero,
     maxWin |-> IF Len(wins) > 0 THEN MaxOf([k \in 1..Len(wins) |-> wins[k].pnl]) ELSE 0,
     maxLoss |-> IF Len(losses) > 0
                 THEN MinOf([k \in 1..Len(losses) |-> losses[k].pnl]) ELSE 0,
     maxWinDollars |-> IF Len(wins) > 0
                       THEN MaxOf([k \in 1..Len(wins) |-> wins[k].netPnLDollars]) ELSE 0,
     maxLossDollars |-> IF Len(losses) > 0
                        THEN MinOf([k \in 1..Len(losses) |-> losses[k].netPnLDollars]) ELSE 0,
     profitFactor |-> IF Abs(SumNet(losses)) > 0
                      THEN Ratio(SumNet(wins), Abs(SumNet(losses)))
                      ELSE IF SumNet(wins) > 0 THEN Infinity ELSE Zero,
     totalLots |-> SumMatchQty(matches),
     totalRTLegs |-> (2 * SumRtCost(matches) + 330) \div 660,
     tickCapture |-> calculateTickCapture(wins, losses, TICK_SIZE)]

\* insightsGenerator.js:849-917; the result for no match (850-877) has 0 in
\* each of the counts, rates, averages, extremes and in profitFactor, as here
calculatePnLStats(matches) ==
    StatsOf(matches, SelectSeq(matches, IsWin), SelectSeq(matches, IsScratch),
            SelectSeq(matches, IsLoss))

\* App.jsx:38-39   const stats = calculatePnLStats(pnlData.matches)
Stats ==
    /\ fifo.pc = "done"
    /\ pnlStats = <<>>
    /\ pnlStats' = <<[matches |-> BookValue(fifo).matches,
                      result |-> calculatePnLStats(BookValue(fifo).matches)]>>
    /\ UNCHANGED <<customStructures, localStorage, TICK_VALUE, TICK_SIZE, RT_COST_PER_LOT,
                   lookup, trades, structureName, fifo, settingsItem, settingsPanel,
                   builtIn, session, input, parse, tradeLog, manualForm, parseStatus, ViewVars>>

NextStats == Next \/ Stats

\* the book and the statistics of a Fly Condor, for every trade list
InitStats ==
    /\ customStructures = <<>>
    /\ localStorage = NoItem
    /\ TICK_VALUE = 3300
    /\ TICK_SIZE = 5
    /\ RT_COST_PER_LOT = 165
    /\ lookup = <<>>
    /\ structureName = SON_Sep26_Fly_Condor
    /\ \E n \in 0..MaxStatsTrades :
          /\ trades = [i \in 1..n |-> i]
          /\ \E heap \in StatsHeaps(n) : fifo = CallState(heap)
    /\ OtherInit

SpecStats == InitStats /\ [][NextStats]_vars

\* the number of matches of the call that satisfy a condition
CountMatches(Is(_)) ==
    Cardinality({k \in 1..Len(pnlStats[1].matches) : Is(pnlStats[1].matches[k])})

\* entry and exit of a match are at the same price
SamePrice(match) == match.openTrade.price = match.closeTrade.price

\* C19: calculatePnLStats partitions every match list into wins (pnlDollars > 0),
\* losses (pnlDollars < 0) and scratches (pnlDollars == 0): winningTrades +
\* losingTrades + scratchTrades == totalTrades, a match with identical entry and exit
\* price is counted only as a scratch, and winRate = wins / (wins + losses) x 100
\* with scratches left out of the denominator
C19_WinLossScratchPartition ==
    pnlStats # <<>> =>
        LET stats == pnlStats[1].result
            wins == CountMatches(LAMBDA m : m.pnlDollars > 0)
            losses == CountMatches(LAMBDA m : m.pnlDollars < 0)
            scratches == CountMatches(LAMBDA m : m.pnlDollars = 0)
        IN  /\ stats.totalTrades = Len(pnlStats[1].matches)
            /\ stats.winningTrades = wins
            /\ stats.losingTrades = losses
            /\ stats.scratchTrades = scratches
            /\ stats.winningTrades + stats.losingTrades + stats.scratchTrades = stats.totalTrades
            /\ CountMatches(SamePrice) <= stats.scratchTrades
            /\ \A k \in 1..Len(pnlStats[1].matches) :
                   SamePrice(pnlStats[1].matches[k]) => pnlStats[1].matches[k].pnlDollars = 0
            /\ wins + losses > 0 =>
                   /\ stats.winRate.den # 0
                   /\ stats.winRate.num * (wins + losses) = wins * 100 * stats.winRate.den

\* the statistics of a win and a scratch: both counted, win rate 100
C19_Witness ==
    /\ pnlStats # <<>>
    /\ pnlStats[1].result.totalTrades = 2
    /\ pnlStats[1].result.winningTrades = 1
    /\ pnlStats[1].result.scratchTrades = 1
    /\ pnlStats[1].result.winRate = Ratio(100, 1)
    /\ \E k \in 1..2 : SamePrice(pnlStats[1].matches[k])

\* C20: for every non-empty match set in which every match is a win,
\* calculatePnLStats returns profitFactor == Infinity
C20_AllWinsProfitFactor ==
    (/\ pnlStats # <<>>
     /\ pnlStats[1].matches # <<>>
     /\ \A k \in 1..Len(pnlStats[1].matches) : pnlStats[1].matches[k].pnlDollars > 0)
        => pnlStats[1].result.profitFactor = Infinity

\* the bucket keys of the tick-capture statistics
TickBuckets == { <<"1">>, <<"2">>, <<"3">>, <<"4">>, <<"5", "+">> }

RECURSIVE SumCounts(_)
SumCounts(byTicks) ==
    IF byTicks = <<>> THEN 0 ELSE Head(byTicks).value.count + SumCounts(Tail(byTicks))

\* no key twice
DistinctKeys(obj) == Cardinality(Keys(obj)) = Len(obj)

\* C22: in the tick-capture statistics every winning match is counted in exactly one
\* of the buckets 1, 2, 3, 4, 5+ of the win distribution and every losing match in
\* exactly one of the same buckets of the loss distribution, so the bucket counts sum
\* to the number of wins (losses) and no other bucket key ever appears
C22_TickCaptureBuckets ==
    pnlStats # <<>> =>
        LET stats == pnlStats[1].result
        IN  /\ DistinctKeys(stats.tickCapture.winsByTicks)
            /\ DistinctKeys(stats.tickCapture.lossesByTicks)
            /\ SumCounts(stats.tickCapture.winsByTicks) = stats.winningTrades
            /\ SumCounts(stats.tickCapture.distribution) = stats.winningTrades
            /\ SumCounts(stats.tickCapture.lossesByTicks) = stats.losingTrades
            /\ Keys(stats.tickCapture.winsByTicks) \subseteq TickBuckets
            /\ Keys(stats.tickCapture.distribution) \subseteq TickBuckets
            /\ Keys(stats.tickCapture.lossesByTicks) \subseteq TickBuckets


-----------------------------------------------------------------------------
(* normalizeStructureName applied to its own result: part_000:199-234 *)

MaxNameTokens == 3

\* pieces of structure names, one or more for each replacement of the function
NameTokens ==
    { <<"3">>, <<" ">>, <<"d">>, <<"D", "-">>, <<"f", "l", "y">>, <<"c", "o", "n", "d", "o", "r">>, <<"3", "m", "o">>, <<"b", "u", "t", "t", "e", "r", "f", "l", "y">>, <<"c", "a", "l", "e", "n", "d", "a", "r">>,
      <<"M", "a", "r", "2", "6">>, <<" ", "-", " ">>, <<EnDash>> }

RECURSIVE NamesOf(_)
NamesOf(n) ==
    IF n = 0 THEN {<<>>}
    ELSE NamesOf(n - 1) \cup {name \o token : name \in NamesOf(n - 1), token \in NameTokens}

StructureNames == NamesOf(MaxNameTokens)

NormalizeIdle ==
    UNCHANGED <<customStructures, localStorage, TICK_VALUE, TICK_SIZE, RT_COST_PER_LOT,
                lookup, trades, structureName, fifo, settingsItem, settingsPanel, builtIn,
                session, input, parse, tradeLog, manualForm, parseStatus, pnlStats,
                structuresData, analytics, selectedStructure>>

\* normalizeStructureName(structure) of a name
Normalize ==
    /\ Len(normalizations) = 1
    /\ normalizations' = Append(normalizations, normalizeStructureName(normalizations[1]))
    /\ NormalizeIdle

\* normalizeStructureName of the result
NormalizeAgain ==
    /\ Len(normalizations) = 2
    /\ normalizations' = Append(normalizations, normalizeStructureName(normalizations[2]))
    /\ NormalizeIdle

NextNormalize == Normalize \/ NormalizeAgain

InitNormalize ==
    /\ MatcherInit
    /\ PipelineInit
    /\ \E name \in StructureNames : normalizations = <<name>>

SpecNormalize == InitNormalize /\ [][NextNormalize]_vars

\* C21: structure-name normalization is idempotent:
\* normalizeStructureName(normalizeStructureName(x)) == normalizeStructureName(x)
\* for every structure-name input x
C21_NormalizeIdempotent == Len(normalizations) = 3 => normalizations[3] = normalizations[2]

\* a name the function changes, 3dfly, normalizations twice
C21_Witness ==
    /\ Len(normalizations) = 3
    /\ normalizations[1] = <<"3", "d", "f", "l", "y">>
    /\ normalizations[2] = <<"3", " ", "D", "-", "F", "l", "y">>


-----------------------------------------------------------------------------
(* The books of the structures of a trade log (App.jsx:33-49) and the combined  *)
(* match list and streaks of the analytics (Analytics.jsx:34-63, 101-124)       *)

\* part_000:541-556, one iteration of the loop
AddToGroup(groups, trade) ==
    IF HasOwn(groups, trade.structure)
    THEN Put(groups, trade.structure,
             [Get(groups, trade.structure) EXCEPT !.trades = Append(@, trade)])
    ELSE Put(groups, trade.structure, [name |-> trade.structure, trades |-> <<trade>>])

\* part_000:541-556
RECURSIVE groupTradesInto(_, _)
groupTradesInto(groups, log) ==
    IF log = <<>> THEN groups ELSE groupTradesInto(AddToGroup(groups, Head(log)), Tail(log))

groupTradesByStructure(log) == groupTradesInto(<<>>, log)

\* the trade as the matcher compares it: its side is the string 'BUY' or another
MatcherTrade(trade) == [trade EXCEPT !.side = IF @ = <<"B", "U", "Y">> THEN "BUY" ELSE "SELL"]

\* insightsGenerator.js:576-777: the book of calculateFIFOPnL(list, name), its
\* references replaced by the objects
calculateFIFOPnL(list, name) ==
    BookValue(RunFor(CallState([i \in 1..Len(list) |-> MatcherTrade(list[i])]),
                     [i \in 1..Len(list) |-> i], name))

\* App.jsx:41-47   { name, metadata, trades, ...pnlData, stats }
StructureDataOf(group, pnlData) ==
    [field \in DOMAIN pnlData \cup {"name", "trades", "stats"} |->
        IF field = "name" THEN group.name
        ELSE IF field = "trades" THEN group.trades
        ELSE IF field = "stats" THEN calculatePnLStats(pnlData.matches)
        ELSE pnlData[field]]

\* App.jsx:34-49, the groups given
StructuresDataOf(groups) ==
    [i \in 1..Len(groups) |->
        StructureDataOf(groups[i].value,
                        calculateFIFOPnL(groups[i].value.trades, groups[i].value.name))]

\* App.jsx:34-49: the value of the memo for a trade log
StructuresData(log) == StructuresDataOf(groupTradesByStructure(log))

\* structuresData.flatMap(s => s.matches || [])
RECURSIVE FlatMatches(_)
FlatMatches(data) == IF data = <<>> THEN <<>> ELSE Head(data).matches \o FlatMatches(Tail(data))

\* .sort((a, b) => (a.exitOrder || 0) - (b.exitOrder || 0)): the sort is stable
RECURSIVE InsertByExitOrder(_, _)
InsertByExitOrder(sorted, match) ==
    IF sorted = <<>> THEN <<match>>
    ELSE IF sorted[Len(sorted)].exitOrder - match.exitOrder <= 0 THEN Append(sorted, match)
    ELSE Append(InsertByExitOrder(SubSeq(sorted, 1, Len(sorted) - 1), match),
                sorted[Len(sorted)])

RECURSIVE SortByExitOrder(_)
SortByExitOrder(list) ==
    IF list = <<>> THEN <<>>
    ELSE InsertByExitOrder(SortByExitOrder(SubSeq(list, 1, Len(list) - 1)), list[Len(list)])

\* Analytics.jsx:105-108
AllMatches(data) == SortByExitOrder(FlatMatches(data))

Max(a, b) == IF a >= b THEN a ELSE b

\* Analytics.jsx:45-57: the loop, from the streaks so far
RECURSIVE StreaksFrom(_, _)
StreaksFrom(matches, s) ==
    IF matches = <<>> THEN s
    ELSE IF Head(matches).netPnLDollars > 0
    THEN StreaksFrom(Tail(matches),
                     [s EXCEPT !.winStreak = @ + 1, !.lossStreak = 0,
                               !.maxWinStreak = Max(@, s.winStreak + 1)])
    ELSE StreaksFrom(Tail(matches),
                     [s EXCEPT !.lossStreak = @ + 1, !.winStreak = 0,
                               !.maxLossStreak = Max(@, s.lossStreak + 1)])

\* Analytics.jsx:59-62
StreaksResult(matches, s) ==
    [currentStreak |-> IF matches[Len(matches)].netPnLDollars > 0
                       THEN s.winStreak ELSE -s.lossStreak,
     maxWinStreak |-> s.maxWinStreak,
     maxLossStreak |-> s.maxLossStreak]

\* Analytics.jsx:34-63
calculateStreaks(matches) ==
    IF matches = <<>> THEN [currentStreak |-> 0, maxWinStreak |-> 0, maxLossStreak |-> 0]
    ELSE StreaksResult(matches,
                       StreaksFrom(matches, [winStreak |-> 0, lossStreak |-> 0,
                                             maxWinStreak |-> 0, maxLossStreak |-> 0]))

\* Analytics.jsx:105-124: the memos of a mounted Analytics
AnalyticsOf(data) ==
    [allMatches |-> AllMatches(data), streaks |-> calculateStreaks(AllMatches(data))]

\* the render that follows setTrades: the memos are computed again
Render(log) ==
    /\ structuresData' = StructuresData(log)
    /\ analytics' = IF analytics = <<>> THEN <<>> ELSE <<AnalyticsOf(StructuresData(log))>>


-----------------------------------------------------------------------------
(* Manual entry: part_000:415-452, TradeInput.jsx:133-153, App.jsx:51-71 *)

MaxLog == 2

MaxTimers == 2

\* new Date(): the time the clock shows, 2025-06-16 10:00:07
Clock == {1750068007}

Pad2(n) == <<DigitChar(n \div 10), DigitChar(n % 10)>>

\* date.toTimeString().split(' ')[0]
TimeString(time) ==
    Pad2((time % 86400) \div 3600) \o <<":">> \o Pad2((time % 3600) \div 60) \o <<":">>
        \o Pad2(time % 60)

\* /^\d{4}-\d{2}-\d{2}$/ : the value of an input of type date
DateInputPattern ==
    Rep(Digit, 4, 4) \o One({"-"}) \o Rep(Digit, 2, 2) \o One({"-"}) \o Rep(Digit, 2, 2) \o AtEnd

\* part_000:424-427   new Date(date) for the value of a date input, else new Date()
ManualDate(date, now) ==
    IF TestAtStart(DateInputPattern, date)
    THEN NewDate(DateGroups(date)[1], DateGroups(date)[2] - 1, DateGroups(date)[3])
    ELSE [kind |-> "date", time |-> now]

\* date.setHours(h); date.setMinutes(m): the seconds are kept
SetHoursMinutes(date, hours, minutes) ==
    AddSeconds(AddSeconds(date, hours - (date.time % 86400) \div 3600, 3600),
               minutes - (date.time % 3600) \div 60, 60)

\* part_000:430-434
ManualTime(time, date) ==
    IF time = <<>> THEN date
    ELSE SetHoursMinutes(date, OrElse(parseInt(SplitOn(time, ":")[1]), 0),
                         IF Len(SplitOn(time, ":")) < 2 THEN 0
                         ELSE OrElse(parseInt(SplitOn(time, ":")[2]), 0))

\* part_000:437
ManualSide(side) == IF toUpperCase(side) \in { <<"B", "U", "Y">>, <<"B">> } THEN <<"B", "U", "Y">> ELSE <<"S", "E", "L", "L">>

\* part_000:436-451
ManualTrade(data, parsedDate, random) ==
    IF parsedDate.kind = "invalid" THEN RangeError
    ELSE Trade(parsedDate.time, random,
               IF data.time = <<>> THEN TimeString(parsedDate.time) ELSE data.time,
               IF data.exchange = <<>> THEN <<"M", "A", "N", "U", "A", "L">> ELSE data.exchange,
               normalizeStructureName(data.structure), data.structure, ManualSide(data.side),
               OrElse(parseInt(data.quantity), 1), OrElse(parseFloat(data.price), 0))

\* part_000:415-452 without the validation of lines 419-421
createManualTrade_NoValidation(data, now, random) ==
    ManualTrade(data, ManualTime(data.time, ManualDate(data.date, now)), random)

\* part_000:415-452; the fields of data are strings, <<>> for one that is missing
createManualTrade(data, now, random) ==
    IF data.structure = <<>> \/ data.side = <<>> \/ data.quantity = <<>>
    THEN Thrown(<<"S", "t", "r", "u", "c", "t", "u", "r", "e", ",", " ", "s", "i", "d", "e", ",", " ", "a", "n", "d", " ", "q", "u", "a", "n", "t", "i", "t", "y", " ", "a", "r", "e", " ", "r", "e", "q", "u", "i", "r", "e", "d">>)
    ELSE ManualTrade(data, ManualTime(data.time, ManualDate(data.date, now)), random)

\* App.jsx:58, 62   `${t.timestamp}-${t.structure}-${t.side}-${t.quantity}-${t.price}`
LogicalKey(t) == <<t.timestamp, t.structure, t.side, t.quantity, t.price>>

\* handleTradesAdded, were the merged log sorted by timestamp
handleTradesAdded_Sorted(log, newTrades) ==
    SortTrades(log \o SelectSeq(newTrades,
                                LAMBDA t : /\ \A k \in 1..Len(log) : log[k].id # t.id
                                           /\ \A k \in 1..Len(log) :
                                                 LogicalKey(log[k]) # LogicalKey(t)))

\* App.jsx:51-71: the new state `trades` after handleTradesAdded(newTrades)
handleTradesAdded(log, newTrades) ==
    log \o SelectSeq(newTrades,
                     LAMBDA t : /\ \A k \in 1..Len(log) : log[k].id # t.id
                                /\ \A k \in 1..Len(log) : LogicalKey(log[k]) # LogicalKey(t))

EntryIdle == UNCHANGED <<customStructures, localStorage, TICK_VALUE, TICK_SIZE, RT_COST_PER_LOT,
                         lookup, trades, structureName, fifo, settingsItem, settingsPanel,
                         builtIn, session, input, parse, pnlStats, normalizations,
                         selectedStructure>>

\* the values typed or chosen in the fields of the form
FormValues(field) ==
    IF field = "structure" THEN {<<>>, XYZ}
    ELSE IF field = "side" THEN { <<"B", "U", "Y">>, <<"S", "E", "L", "L">> }
    ELSE IF field = "quantity" THEN {<<>>, <<"1">>, <<"2">>}
    ELSE IF field = "price" THEN {<<>>, <<"1", ".", "5">>}
    ELSE IF field = "date" THEN {Today}
    ELSE IF field = "time" THEN {Now}
    ELSE { <<"I", "C", "E", "_", "L">> }

\* TradeInput.jsx:161-163
updateManualField(field, value) ==
    /\ manualForm' = [manualForm EXCEPT ![field] = value]
    /\ UNCHANGED <<tradeLog, parseStatus, structuresData, analytics>>
    /\ EntryIdle

\* TradeInput.jsx:133-153
handleManualSubmit(now, random) ==
    /\ Len(tradeLog) < MaxLog
    /\ parseStatus.timers < MaxTimers
    /\ LET trade == createManualTrade(manualForm, now, random)
       IN  IF trade.kind = "trade"
           THEN /\ tradeLog' = handleTradesAdded(tradeLog, <<trade>>)
                /\ Render(handleTradesAdded(tradeLog, <<trade>>))
                /\ parseStatus' = [value |-> [type |-> "success",
                                              message |-> <<"T", "r", "a", "d", "e", " ", "a", "d", "d", "e", "d", " ", "s", "u", "c", "c", "e", "s", "s", "f", "u", "l", "l", "y">>],
                                   timers |-> parseStatus.timers + 1]
                /\ manualForm' = [manualForm EXCEPT !.quantity = <<"1">>, !.price = <<>>,
                                                    !.time = SubSeq(TimeString(now), 1, 5)]
           ELSE /\ parseStatus' = [parseStatus EXCEPT
                                      !.value = [type |-> "error", message |-> trade.message]]
                /\ UNCHANGED <<tradeLog, manualForm, structuresData, analytics>>
    /\ EntryIdle

\* TradeInput.jsx:149   setTimeout(() => setParseStatus(null), 3000)
StatusTimeout ==
    /\ parseStatus.timers > 0
    /\ parseStatus' = [value |-> <<>>, timers |-> parseStatus.timers - 1]
    /\ UNCHANGED <<tradeLog, manualForm, structuresData, analytics>>
    /\ EntryIdle

NextEntry ==
    \/ \E field \in DOMAIN DefaultManualForm : \E value \in FormValues(field) :
           updateManualField(field, value)
    \/ \E now \in Clock, random \in Randoms : handleManualSubmit(now, random)
    \/ StatusTimeout

SpecEntry == InitLegs /\ [][NextEntry]_vars

\* the form lacks a required field
MissingField(data) == data.structure = <<>> \/ data.side = <<>> \/ data.quantity = <<>>

\* the entries a caller can pass: each required field present or missing
ManualEntries ==
    [structure : {<<>>, XYZ}, side : {<<>>, <<"S", "E", "L", "L">>}, quantity : {<<>>, <<"2">>},
     price : { <<"1", ".", "5">> }, date : {Today}, time : {Now}, exchange : { <<"I", "C", "E", "_", "L">> }]

\* createManualTrade throws on every entry that lacks a required field
C18_EntryRejected ==
    \A data \in ManualEntries, now \in Clock, random \in Randoms :
        MissingField(data) =>
            createManualTrade(data, now, random)
                = Thrown(<<"S", "t", "r", "u", "c", "t", "u", "r", "e", ",", " ", "s", "i", "d", "e", ",", " ", "a", "n", "d", " ", "q", "u", "a", "n", "t", "i", "t", "y", " ", "a", "r", "e", " ", "r", "e", "q", "u", "i", "r", "e", "d">>)

\* a submission of a form that lacks a required field shows the error and leaves the
\* trade log and the form as they were
C18_SubmitStep ==
    \A now \in Clock, random \in Randoms :
        (handleManualSubmit(now, random) /\ MissingField(manualForm)) =>
            /\ tradeLog' = tradeLog
            /\ manualForm' = manualForm
            /\ parseStatus'.value = [type |-> "error",
                                     message |-> <<"S", "t", "r", "u", "c", "t", "u", "r", "e", ",", " ", "s", "i", "d", "e", ",", " ", "a", "n", "d", " ", "q", "u", "a", "n", "t", "i", "t", "y", " ", "a", "r", "e", " ", "r", "e", "q", "u", "i", "r", "e", "d">>]

\* C18: a manual entry with structure, side or quantity missing is rejected with a
\* validation error surfaced to the caller, no Trade is created, and the trade log
\* is unchanged by the submission
C18_InvalidEntryRejected == [](C18_EntryRejected) /\ [][C18_SubmitStep]_vars

\* a trade is in the log, and a later submission without a quantity was rejected
C18_Witness ==
    /\ Len(tradeLog) = 1
    /\ manualForm.quantity = <<>>
    /\ manualForm.structure = XYZ
    /\ parseStatus.value # <<>>
    /\ parseStatus.value.type = "error"


-----------------------------------------------------------------------------
(* The application: the trade log, the books of its structures (App.jsx:33-49), *)
(* the pasted fills (TradeInput.jsx:105-131), the deletion of a trade          *)
(* (App.jsx:73-85) and the analytics (Analytics.jsx:34-63, 101-124).  Of a     *)
(* group, the metadata is left out; of the analytics, everything but the       *)
(* combined match list and the streaks.                                        *)

MaxBatch == 2

MaxAppLog == 4

\* the status timers (TradeInput.jsx:126) pending at once in the application
MaxAppTimers == 1

\* the fills pasted in the application: a buy and a sell of the D-Fly, a sell and a
\* buy of the calendar
AppRows ==
    { <<"1", "6", "-", "6", "-", "2", "5", "\t", "1", "6", ".", "3", "8", ".", "2", "5", "\t", "I", "C", "E", "_", "L", "\t", "S", "O", "N", " ", "S", "e", "p", "2", "6", " ", "D", "-", "F", "l", "y", "\t", "B", "\t", "1", "\t", "-", "0", ".", "0", "2", "5">>,
      <<"1", "6", "-", "6", "-", "2", "5", "\t", "1", "1", ":", "0", "0", ":", "0", "0", "\t", "I", "C", "E", "_", "L", "\t", "S", "O", "N", " ", "S", "e", "p", "2", "6", " ", "D", "-", "F", "l", "y", "\t", "S", "\t", "1", "\t", "-", "0", ".", "0", "2">>,
      <<"1", "5", "-", "6", "-", "2", "5", "\t", "1", "0", ":", "0", "0", ":", "0", "0", "\t", "C", "M", "E", "\t", "S", "O", "3", " ", "M", "a", "r", "2", "6", "-", "J", "u", "n", "2", "6", " ", "C", "a", "l", "e", "n", "d", "a", "r", "\t", "S", "E", "L", "L", "\t", "3", "\t", "9", "9", ".", "5">>,
      <<"1", "5", "-", "6", "-", "2", "5", "\t", "1", "1", ":", "0", "0", ":", "0", "0", "\t", "C", "M", "E", "\t", "S", "O", "3", " ", "M", "a", "r", "2", "6", "-", "J", "u", "n", "2", "6", " ", "C", "a", "l", "e", "n", "d", "a", "r", "\t", "B", "U", "Y", "\t", "3", "\t", "9", "9", ".", "5">> }

\* the texts of 1..MaxBatch lines, all the same fill
AppInputs == {JoinLines([i \in 1..n |-> row]) : row \in AppRows, n \in 1..MaxBatch}

AppIdle == UNCHANGED <<customStructures, localStorage, TICK_VALUE, TICK_SIZE, RT_COST_PER_LOT,
                       lookup, trades, structureName, fifo, settingsItem, settingsPanel,
                       builtIn, session, manualForm, pnlStats, normalizations>>

\* TradeInput.jsx:258 and 105-131: a text is pasted and Parse is clicked; result is
\* what parseTrades returns, and parseErrors is kept in parse.errors
handleParseResult(text, result) ==
    /\ input' = IF result.trades = <<>> THEN text ELSE <<>>
    /\ parse' = [NoCall EXCEPT !.errors = result.errors]
    /\ IF trim(text) = <<>>
       THEN /\ parseStatus' = [parseStatus EXCEPT
                                  !.value = [type |-> "error",
                                             message |-> <<"P", "l", "e", "a", "s", "e", " ", "p", "a", "s", "t", "e", " ", "s", "o", "m", "e", " ", "f", "i", "l", "l", "s", " ", "f", "i", "r", "s", "t">>]]
            /\ UNCHANGED <<tradeLog, structuresData, analytics>>
       ELSE IF result.trades = <<>>
       THEN /\ parseStatus' = [parseStatus EXCEPT
                                  !.value = [type |-> "error",
                                             message |-> <<"N", "o", " ", "v", "a", "l", "i", "d", " ", "t", "r", "a", "d", "e", "s", " ", "f", "o", "u", "n", "d", " ", "i", "n", " ", "i", "n", "p", "u", "t">>]]
            /\ UNCHANGED <<tradeLog, structuresData, analytics>>
       ELSE /\ tradeLog' = handleTradesAdded(tradeLog, result.trades)
            /\ Render(handleTradesAdded(tradeLog, result.trades))
            /\ parseStatus' = [value |-> [type |-> "success",
                                          message |-> <<Len(result.trades), Len(result.errors)>>],
                               timers |-> parseStatus.timers + 1]
    /\ UNCHANGED selectedStructure
    /\ AppIdle

handleParse(text, randoms) ==
    /\ Len(tradeLog) + Len(parseTrades(text, randoms).trades) <= MaxAppLog
    /\ parseStatus.timers < MaxAppTimers
    /\ handleParseResult(text, parseTrades(text, randoms))

\* TradeInput.jsx:126-129   setTimeout(() => { setParseStatus(null); setParseErrors([]) }, 5000)
ParseStatusTimeout ==
    /\ parseStatus.timers > 0
    /\ parseStatus' = [value |-> <<>>, timers |-> parseStatus.timers - 1]
    /\ parse' = NoCall
    /\ UNCHANGED <<input, tradeLog, structuresData, analytics, selectedStructure>>
    /\ AppIdle

\* App.jsx:99-101: a card of the dashboard is clicked
handleStructureClick(name) ==
    /\ selectedStructure' = <<name>>
    /\ UNCHANGED <<input, parse, tradeLog, parseStatus, structuresData, analytics>>
    /\ AppIdle

\* App.jsx:164   onClose={() => setSelectedStructure(null)}
CloseDetail ==
    /\ selectedStructure # <<>>
    /\ selectedStructure' = <<>>
    /\ UNCHANGED <<input, parse, tradeLog, parseStatus, structuresData, analytics>>
    /\ AppIdle

\* t => t.id !== tradeId
DeleteTrade(log, tradeId) == SelectSeq(log, LAMBDA t : t.id # tradeId)

\* App.jsx:73-85; structuresData is the one of the render the handler was made in
handleDeleteTrade(tradeId) ==
    /\ tradeLog' = DeleteTrade(tradeLog, tradeId)
    /\ Render(DeleteTrade(tradeLog, tradeId))
    /\ selectedStructure' =
           IF selectedStructure # <<>>
              /\ \A i \in 1..Len(structuresData) :
                     structuresData[i].name = selectedStructure[1]
                         => Len(structuresData[i].trades) = 0
           THEN <<>> ELSE selectedStructure
    /\ UNCHANGED <<input, parse, parseStatus>>
    /\ AppIdle

\* App.jsx:87-93, the confirmation given
handleClearAll ==
    /\ tradeLog # <<>>
    /\ tradeLog' = <<>>
    /\ Render(<<>>)
    /\ selectedStructure' = <<>>
    /\ UNCHANGED <<input, parse, parseStatus>>
    /\ AppIdle

\* App.jsx:115-129: one of the two views is chosen
setActiveView(view) ==
    /\ analytics' = IF view = "analytics" THEN <<AnalyticsOf(structuresData)>> ELSE <<>>
    /\ analytics' # analytics
    /\ UNCHANGED <<input, parse, tradeLog, parseStatus, structuresData, selectedStructure>>
    /\ AppIdle

RECURSIVE FlatTrades(_)
FlatTrades(data) == IF data = <<>> THEN <<>> ELSE Head(data).trades \o FlatTrades(Tail(data))

\* the structure shown in the detail view: App.jsx:104-107, 161
DetailTrades ==
    IF selectedStructure = <<>> THEN <<>>
    ELSE FlatTrades(SelectSeq(structuresData, LAMBDA s : s.name = selectedStructure[1]))

NextApp ==
    \/ \E text \in AppInputs, randoms \in [1..MaxBatch -> Randoms] : handleParse(text, randoms)
    \/ ParseStatusTimeout
    \/ \E i \in 1..Len(structuresData) : handleStructureClick(structuresData[i].name)
    \/ CloseDetail
    \/ \E k \in 1..Len(DetailTrades) : handleDeleteTrade(DetailTrades[k].id)
    \/ handleClearAll
    \/ \E view \in {"dashboard", "analytics"} : setActiveView(view)

SpecApp == InitLegs /\ [][NextApp]_vars

-----------------------------------------------------------------------------
\* the places of the trade log at which a trade of a match was entered
LogPlaces(trade) == {k \in 1..Len(tradeLog) : MatcherTrade(tradeLog[k]) = trade}

\* the longest run of consecutive matches of a list that are wins (or, are not)
LongestRun(matches, wins) ==
    LET runs == {n \in 0..Len(matches) :
                    \E from \in 1..(Len(matches) - n + 1) :
                        \A k \in from..(from + n - 1) :
                            (matches[k].netPnLDollars > 0) = wins}
    IN  CHOOSE n \in runs : \A other \in runs : other <= n

\* C23: the combined match list of the analytics is in the order in which the closing
\* trades of the matches were entered into the trade log (a match whose closing trade
\* was entered earlier comes before one whose closing trade was entered later), and
\* maxWinStreak and maxLossStreak are the longest runs of consecutive wins and of
\* consecutive losses of that list.
C23_ChronologicalExitOrder ==
    analytics # <<>> =>
        /\ \A i, j \in 1..Len(analytics[1].allMatches) :
              i < j => \E ki \in LogPlaces(analytics[1].allMatches[i].closeTrade),
                          kj \in LogPlaces(analytics[1].allMatches[j].closeTrade) : ki <= kj
        /\ analytics[1].streaks.maxWinStreak = LongestRun(analytics[1].allMatches, TRUE)
        /\ analytics[1].streaks.maxLossStreak = LongestRun(analytics[1].allMatches, FALSE)

\* C27: after any sequence of add operations the trade log holds no two trades with
\* the same id, and no two trades with the same logical key (timestamp, structure,
\* side, quantity, price).
C27_NoDuplicateTrades ==
    \A i, j \in 1..Len(tradeLog) :
        i # j => /\ tradeLog[i].id # tradeLog[j].id
                 /\ LogicalKey(tradeLog[i]) # LogicalKey(tradeLog[j])

\* the trades of a structure, in the order of the log
TradesOf(log, name) == SelectSeq(log, LAMBDA t : t.structure = name)

\* the trades of the log that do not have an id, in the order of the log
Without(log, tradeId) ==
    LET kept == {k \in 1..Len(log) : log[k].id # tradeId}
        RECURSIVE Place(_)
        Place(n) == IF n = 1 THEN CHOOSE k \in kept : \A other \in kept : k <= other
                    ELSE CHOOSE k \in kept : /\ k > Place(n - 1)
                                             /\ \A other \in kept : other > Place(n - 1) => k <= other
    IN  [n \in 1..Cardinality(kept) |-> log[Place(n)]]

\* a step of the trade log: trades are appended after the existing ones, or the
\* trades with one id are removed and the others keep their order, or the log is cleared
C28_LogStep ==
    \/ tradeLog' = tradeLog
    \/ /\ Len(tradeLog') > Len(tradeLog)
       /\ SubSeq(tradeLog', 1, Len(tradeLog)) = tradeLog
    \/ \E k \in 1..Len(tradeLog) : tradeLog' = Without(tradeLog, tradeLog[k].id)
    \/ tradeLog' = <<>>

\* the groups are the structures of the log in the order of their first trades, each
\* with its trades in log order, and each book is that of calculateFIFOPnL on them
C28_GroupsInLogOrder ==
    /\ \A k \in 1..Len(tradeLog) :
          \E i \in 1..Len(structuresData) : structuresData[i].name = tradeLog[k].structure
    /\ \A i \in 1..Len(structuresData) :
          /\ structuresData[i].trades = TradesOf(tradeLog, structuresData[i].name)
          /\ structuresData[i].trades # <<>>
          /\ structuresData[i].matches =
                calculateFIFOPnL(TradesOf(tradeLog, structuresData[i].name),
                                 structuresData[i].name).matches

\* C28: across add and delete operations, a structure's trades reach calculateFIFOPnL
\* in the order in which they were appended to the log: adding appends after the
\* existing trades without sorting, deleting removes the trade with the given id and
\* keeps the order of the others, and the grouping keeps each structure's trades in
\* log order.
C28_LogOrderKept == [](C28_GroupsInLogOrder) /\ [][C28_LogStep]_vars

\* a D-Fly fill of 16 June 11:00 was entered before a D-Fly fill of 16 June 00:00,
\* a Calendar fill is in the log too, and the D-Fly group holds the later fill first
C28_Witness ==
    /\ Len(tradeLog) >= 3
    /\ \E i, j \in 1..Len(tradeLog) :
          /\ i < j
          /\ tradeLog[i].structure = tradeLog[j].structure
          /\ tradeLog[i].timestamp > tradeLog[j].timestamp
          /\ \E g \in 1..Len(structuresData) :
                /\ Len(structuresData[g].trades) = 2
                /\ structuresData[g].trades[1] = tradeLog[i]
                /\ structuresData[g].trades[2] = tradeLog[j]
                /\ Len(structuresData[g].matches) = 1


-----------------------------------------------------------------------------
(* The book of a call: its queues and the lots of its trades *)

AllQuantitiesPositive == \A i \in 1..Len(trades) : InputTrade(i).quantity > 0

\* C24: with all quantities positive, after each trade processed by calculateFIFOPnL
\* the long queue and the short queue are not both non-empty: the open position is
\* all long, all short, or flat.
C24_QueuesNeverBothOpen ==
    AllQuantitiesPositive /\ fifo.pc \in {"for", "done"}
        => fifo.longQueue = <<>> \/ fifo.shortQueue = <<>>

\* two shorts of one lot were covered by a buy of three lots: the third lot rests on
\* the long queue and the short queue is empty
C24_Witness ==
    /\ Returned
    /\ AllQuantitiesPositive
    /\ Len(Matches) = 2
    /\ Matches[1].type = "COVER_SHORT" /\ Matches[2].type = "COVER_SHORT"
    /\ Matches[1].exitOrder = 3 /\ Matches[2].exitOrder = 3
    /\ Len(fifo.longQueue) = 1
    /\ fifo.heap[fifo.longQueue[1]].quantity = 1
    /\ fifo.shortQueue = <<>>

\* the lots of the i-th trade of the list: in the matches it closes, in the matches
\* it opened, and resting in a queue
ClosedLots(i) ==
    SumSeq([k \in 1..Len(Matches) |->
               IF Matches[k].exitOrder = i THEN Matches[k].matchQty ELSE 0])

OpenedLots(i) ==
    SumSeq([k \in 1..Len(Matches) |->
               IF Matches[k].entryOrder = i THEN Matches[k].matchQty ELSE 0])

RestingLots(i) ==
    SumSeq([k \in 1..Len(fifo.longQueue \o fifo.shortQueue) |->
               IF fifo.heap[(fifo.longQueue \o fifo.shortQueue)[k]].entryOrder = i
               THEN fifo.heap[(fifo.longQueue \o fifo.shortQueue)[k]].quantity ELSE 0])

\* C25: the returned book accounts for every lot of every trade exactly once: for each
\* input trade, the matchQty of the matches it closes plus the matchQty of the matches
\* it opened plus its quantity resting in a queue is its quantity; and
\* totalBuyQty = closedQty + openLongQty, totalSellQty = closedQty + openShortQty.
C25_EveryLotAccounted ==
    Returned =>
        /\ \A i \in 1..Len(trades) :
              ClosedLots(i) + OpenedLots(i) + RestingLots(i) = InputTrade(i).quantity
        /\ Book.totalBuyQty = Book.closedQty + Book.openLongQty
        /\ Book.totalSellQty = Book.closedQty + Book.openShortQty

\* the sum of quantity * price over the trades of one side
SideValue(side) ==
    SumSeq([i \in 1..Len(trades) |->
               IF InputTrade(i).side = side
               THEN InputTrade(i).quantity * InputTrade(i).price ELSE 0])

\* C26: when the trade list ends flat (netPosition = 0), realizedPnL in price units
\* is the sum of quantity * price over the sells minus the sum over the buys, whatever
\* the order of the trades.
C26_FlatPnLIsCashFlow ==
    Returned /\ Book.netPosition = 0
        => Book.realizedPnL = SideValue("SELL") - SideValue("BUY")

-----------------------------------------------------------------------------
\* the book and the statistics of a Fly Condor under every cost per leg
InitStatsCost ==
    /\ customStructures = <<>>
    /\ localStorage = NoItem
    /\ TICK_VALUE = 3300
    /\ TICK_SIZE = 5
    /\ RT_COST_PER_LOT \in CostsPerLeg
    /\ lookup = <<>>
    /\ structureName = SON_Sep26_Fly_Condor
    /\ \E n \in 0..MaxCostTrades :
          /\ trades = [i \in 1..n |-> i]
          /\ \E heap \in StatsHeaps(n) : fifo = CallState(heap)
    /\ OtherInit

SpecStatsCost == InitStatsCost /\ [][NextStats]_vars

\* the round-trip legs charged on a list of matches, in legs
LegsCharged(matches) ==
    [num |-> SumSeq([k \in 1..Len(matches) |-> matches[k].matchQty * matches[k].rtLegsTotal]),
     den |-> Leg]

\* C29: the totalRTLegs of calculatePnLStats is the sum over the matches of
\* matchQty * rtLegsTotal, whatever the cost per leg the matches were priced with.
C29_TotalRTLegs ==
    pnlStats # <<>> =>
        pnlStats[1].result.totalRTLegs * LegsCharged(pnlStats[1].matches).den
            = LegsCharged(pnlStats[1].matches).num

-----------------------------------------------------------------------------
(* The books of the application and the settings panel (App.jsx:33-49, 167-172; *)
(* Dashboard.jsx:862-902): fills of the D-Fly are pasted, the panel changes the  *)
(* custom table and the cost per leg.                                           *)

MaxBookLog == 2

\* the fills pasted: a buy and a sell of the D-Fly
BookInputs ==
    { <<"1", "6", "-", "6", "-", "2", "5", "\t", "1", "6", ".", "3", "8", ".", "2", "5", "\t", "I", "C", "E", "_", "L", "\t", "S", "O", "N", " ", "S", "e", "p", "2", "6", " ", "D", "-", "F", "l", "y", "\t", "B", "\t", "1", "\t", "-", "0", ".", "0", "2", "5">>,
      <<"1", "6", "-", "6", "-", "2", "5", "\t", "1", "1", ":", "0", "0", ":", "0", "0", "\t", "I", "C", "E", "_", "L", "\t", "S", "O", "N", " ", "S", "e", "p", "2", "6", " ", "D", "-", "F", "l", "y", "\t", "S", "\t", "1", "\t", "-", "0", ".", "0", "2">> }

NextBooks ==
    \/ \E text \in BookInputs, randoms \in [1..MaxBatch -> Randoms] :
          Len(tradeLog) < MaxBookLog /\ handleParse(text, randoms)
    \/ ParseStatusTimeout
    \/ OpenSettings
    \/ CloseSettings
    \/ \E numValue \in CostsPerLeg : handleConfigChange("rtCostPerLot", numValue)
    \/ handleSaveConfig
    \/ handleResetConfig
    \/ \E k \in 1..Len(tradeLog), rtLegs \in CustomLegs :
          handleAddStructure(tradeLog[k].structure, rtLegs)
    \/ \E name \in Keys(customStructures) : handleRemoveStructure(name)

SpecBooks == InitLegs /\ [][NextBooks]_vars

\* C30: the structure books held by the application are calculateFIFOPnL of the
\* current trade log under the current cost table and trading constants, also after a
\* custom structure was added or removed or the constants were updated, without a
\* change of the trade log.
C30_BooksAreCurrent == structuresData = StructuresData(tradeLog)

====
